---- MODULE Spec2Model ----
(***************************************************************************)
(* Model of the medical benchmark pipeline (med_benchmark): the response   *)
(* validator (validation.py), the transport retry loop (llm_client.py),    *)
(* the repair loop and the per-patient admission loop (pipeline.py), and   *)
(* the packet extractor stage by stage (extractor.py).                     *)
(*                                                                         *)
(* Strings are sequences of one-character strings, so that lower(),        *)
(* strip() and the EID format are computed and not assumed.  JSON values   *)
(* are records [t, v] tagged with their Python type after json.loads.      *)
(***************************************************************************)
EXTENDS Integers, Sequences, FiniteSets, TLC

VARIABLES
    \* the validator alone (SpecValidate)
    val_pc, val_text, val_packet, val_strict, val_data, val_exc, val_issues,
    \* configuration and store
    retry_limit, strict_validation, _cached_subject_id, cache_builds, prepare_calls,
    \* the arguments of the call, where a run is started with given arguments
    entry_in,
    \* generate_patient_sample
    pc, exc, subject, admissions, adm_i, patient_manifest, prev_summary_text,
    patient_conversation_details_rows, patient_conversation_only_rows,
    extraction_packet, system_message, user_message, parsed,
    \* _generate_validated_response and generate_with_retries
    schema_attempt, validation_errors, aggregated_attempts, current_user_message,
    latest_result, attempt_idx, attempts,
    \* what has left the process: model calls of the current admission, the
    \* validation verdict of each round, and the files on disk
    calls, verdicts, disk_manifest, disk_files, disk_conversation, disk_summary,
    disk_details, disk_only,
    \* extract_admission_packet alone (SpecExtract): the source rows and the
    \* configuration of the call, the locals of the call after each of its
    \* stages, its results, and the packet of an earlier call on the same input
    ext_pc, ext_in, ext_rows, ext_counts, section_lists, truncation_stats,
    ext_packet, input_data_manifest, prompt_record, ext_first

val_vars == <<val_pc, val_text, val_packet, val_strict, val_data, val_exc, val_issues>>

config_vars == <<retry_limit, strict_validation, entry_in>>

\* the store: the subject the temp tables hold, how often they were built and
\* how often prepare_subject_cache was called
store_vars == <<_cached_subject_id, cache_builds, prepare_calls>>

loop_vars == <<subject, admissions, adm_i, prev_summary_text,
               patient_conversation_details_rows, patient_conversation_only_rows>>

prompt_vars == <<extraction_packet, system_message, user_message>>

gen_vars == <<schema_attempt, validation_errors, aggregated_attempts, current_user_message,
              latest_result, attempt_idx, attempts>>

artifact_vars == <<disk_files, disk_conversation, disk_summary, disk_details, disk_only>>

pipe_vars == <<config_vars, store_vars, pc, exc, loop_vars, patient_manifest, prompt_vars,
               parsed, gen_vars, calls, verdicts, disk_manifest, artifact_vars>>

ext_vars == <<ext_pc, ext_in, ext_rows, ext_counts, section_lists, truncation_stats,
              ext_packet, input_data_manifest, prompt_record, ext_first>>

vars == <<val_vars, pipe_vars, ext_vars>>

(***************************************************************************)
(* Bounds                                                                  *)
(***************************************************************************)
MaxLabRows == 1

\* retry_limit is drawn from 0..MaxRetry
MaxRetry == 2

\* max_admissions is None or drawn from 1..MaxCap; a row cap is None, negative
\* or drawn from 0..MaxCap
MaxCap == 2

\* at most MaxRows rows of a source table are drawn for a call of the extractor
MaxRows == 2

\* proximal_padding_hours is drawn from 0..MaxPad
MaxPad == 1

\* calls of generate_patient_sample on one pipeline that get to the cache
MaxRuns == 2

(***************************************************************************)
(* Generic helpers                                                         *)
(***************************************************************************)
Last(seq) == seq[Len(seq)]

SetMin(S) == CHOOSE x \in S : \A y \in S : x <= y

SetMax(S) == CHOOSE x \in S : \A y \in S : x >= y

RECURSIVE FlattenSeq(_)
FlattenSeq(ss) == IF ss = <<>> THEN <<>> ELSE Head(ss) \o FlattenSeq(Tail(ss))

(***************************************************************************)
(* Python str methods used by the validator                                *)
(***************************************************************************)
UPPER == <<"A","B","C","D","E","F","G","H","I","J","K","L","M",
           "N","O","P","Q","R","S","T","U","V","W","X","Y","Z">>

LOWER == <<"a","b","c","d","e","f","g","h","i","j","k","l","m",
           "n","o","p","q","r","s","t","u","v","w","x","y","z">>

WHITESPACE == {" ", "\t", "\n", "\r"}

lower_char(c) ==
    IF \E i \in 1..Len(UPPER) : UPPER[i] = c
    THEN LOWER[CHOOSE i \in 1..Len(UPPER) : UPPER[i] = c]
    ELSE c

str_lower(s) == [i \in 1..Len(s) |-> lower_char(s[i])]

str_strip(s) ==
    LET keep == {i \in 1..Len(s) : s[i] \notin WHITESPACE}
    IN  IF keep = {} THEN <<>> ELSE SubSeq(s, SetMin(keep), SetMax(keep))

DIGITS == <<"0","1","2","3","4","5","6","7","8","9">>

RECURSIVE str_of_nat(_)
str_of_nat(n) ==
    IF n < 10 THEN <<DIGITS[n + 1]>>
    ELSE str_of_nat(n \div 10) \o <<DIGITS[(n % 10) + 1]>>

\* format(idx, "06d"): zero-padded to at least six digits
format_06d(n) ==
    LET d == str_of_nat(n)
    IN  IF Len(d) >= 6 THEN d ELSE [i \in 1..(6 - Len(d)) |-> "0"] \o d

\* f"{prefix}#{idx:06d}"
eid_string(prefix, idx) == prefix \o <<"#">> \o format_06d(idx)

(***************************************************************************)
(* JSON values as json.loads returns them                                  *)
(***************************************************************************)
JNull == [t |-> "null", v |-> 0]

JBool(b) == [t |-> "bool", v |-> b]

JInt(n) == [t |-> "int", v |-> n]

\* a float with integral value n (1.0, 2.0, ...)
JFloat(n) == [t |-> "float", v |-> n]

JStr(s) == [t |-> "str", v |-> s]

JList(items) == [t |-> "list", v |-> items]

JDict(rec) == [t |-> "dict", v |-> rec]

\* isinstance(x, int): bool is a subclass of int in Python
isinstance_int(x) == x.t \in {"int", "bool"}

isinstance_str(x) == x.t = "str"

isinstance_list(x) == x.t = "list"

isinstance_dict(x) == x.t = "dict"

\* the number a Python int (or bool) compares as
int_value(x) == IF x.t = "bool" THEN (IF x.v THEN 1 ELSE 0) ELSE x.v

\* list and dict are unhashable: `x in <set>` raises TypeError for them
hashable(x) == x.t \notin {"list", "dict"}

(***************************************************************************)
(* Exceptions: [exc, msg]; msg is the sequence of message parts            *)
(***************************************************************************)
NoExc == [exc |-> "none", msg |-> <<>>]

MsgPart(where, idx, key, what, eid) ==
    [where |-> where, idx |-> idx, key |-> key, what |-> what, eid |-> eid]

ValidationError(where, idx, key, what) ==
    [exc |-> "ValidationError", msg |-> <<MsgPart(where, idx, key, what, <<>>)>>]

TypeError == [exc |-> "TypeError", msg |-> <<MsgPart("speaker", 0, "", "unhashable type", <<>>)>>]

first_failure(results) ==
    LET bad == {i \in 1..Len(results) : results[i].exc # "none"}
    IN  IF bad = {} THEN NoExc ELSE results[SetMin(bad)]

(***************************************************************************)
(* validation.py                                                           *)
(***************************************************************************)
s_PATIENT == <<"P","A","T","I","E","N","T">>

s_ATTENDING == <<"A","T","T","E","N","D","I","N","G">>

s_RESIDENT == <<"R","E","S","I","D","E","N","T">>

s_NURSE == <<"N","U","R","S","E">>

s_CONSULT == <<"C","O","N","S","U","L","T">>

ALLOWED_SPEAKERS == {s_PATIENT, s_ATTENDING, s_RESIDENT, s_NURSE, s_CONSULT}

\* An LLM text is either not JSON at all or the serialization of a JSON value.
TextGarbage == [kind |-> "garbage", val |-> JNull]

TextOf(value) == [kind |-> "json", val |-> value]

parse_json_response(text) ==
    IF text.kind # "json"
    THEN [res |-> ValidationError("json", 0, "", "Invalid JSON"), data |-> JNull]
    ELSE IF ~isinstance_dict(text.val)
    THEN [res |-> ValidationError("json", 0, "", "Top-level response must be a JSON object."),
          data |-> JNull]
    ELSE [res |-> NoExc, data |-> text.val]

_is_list_of_strings(value) ==
    isinstance_list(value) /\ \A i \in 1..Len(value.v) : isinstance_str(value.v[i])

TURN_KEYS == {"turn_id", "speaker", "relative_time", "text", "evidence_eids"}

validate_turn(turn, idx) ==
    IF ~isinstance_dict(turn)
    THEN ValidationError("conversation", idx, "", "must be an object.")
    ELSE IF DOMAIN turn.v # TURN_KEYS
    THEN ValidationError("conversation", idx, "", "keys mismatch.")
    ELSE IF ~isinstance_int(turn.v.turn_id)
    THEN ValidationError("conversation", idx, "turn_id", "must be int.")
    \* expected_turn_id equals idx: it is incremented once per accepted turn
    ELSE IF int_value(turn.v.turn_id) # idx
    THEN ValidationError("conversation", idx, "turn_id", "must be sequential starting at 1")
    ELSE IF ~hashable(turn.v.speaker)
    THEN TypeError
    ELSE IF ~(isinstance_str(turn.v.speaker) /\ turn.v.speaker.v \in ALLOWED_SPEAKERS)
    THEN ValidationError("conversation", idx, "speaker", "invalid")
    ELSE IF ~isinstance_str(turn.v.relative_time)
    THEN ValidationError("conversation", idx, "relative_time", "must be string.")
    ELSE IF ~isinstance_str(turn.v.text)
    THEN ValidationError("conversation", idx, "text", "must be string.")
    ELSE IF ~_is_list_of_strings(turn.v.evidence_eids)
    THEN ValidationError("conversation", idx, "evidence_eids", "must be list[str].")
    ELSE NoExc

\* One item of a summary list.  Python visits item.items() in document order;
\* key_order fixes that order to the schema's.
validate_obj(item, required_keys, key_order, path, idx) ==
    IF ~isinstance_dict(item)
    THEN ValidationError(path, idx, "", "must be an object.")
    ELSE IF DOMAIN item.v # required_keys
    THEN ValidationError(path, idx, "", "keys mismatch.")
    ELSE first_failure([k \in 1..Len(key_order) |->
            IF key_order[k] = "supporting_eids"
            THEN IF ~_is_list_of_strings(item.v[key_order[k]])
                 THEN ValidationError(path, idx, key_order[k], "must be list[str].")
                 ELSE NoExc
            ELSE IF ~isinstance_str(item.v[key_order[k]])
                 THEN ValidationError(path, idx, key_order[k], "must be string.")
                 ELSE NoExc])

_validate_obj_list(value, key_order, path) ==
    IF ~isinstance_list(value)
    THEN ValidationError(path, 0, "", "must be a list.")
    ELSE first_failure([i \in 1..Len(value.v) |->
            validate_obj(value.v[i], {key_order[k] : k \in 1..Len(key_order)}, key_order, path, i)])

SUMMARY_KEYS == {"relative_discharge_time", "one_paragraph_summary", "problem_list",
                 "key_tests_and_results", "treatments_and_meds", "disposition"}

PROBLEM_KEYS == <<"problem", "status_at_discharge", "supporting_eids">>

TEST_KEYS == <<"test", "result", "relative_time", "supporting_eids">>

TREATMENT_KEYS == <<"treatment_or_med", "details", "supporting_eids">>

validate_disposition(disp) ==
    IF ~isinstance_dict(disp)
    THEN ValidationError("disposition", 0, "", "must be an object.")
    ELSE IF DOMAIN disp.v # {"discharge_location", "supporting_eids"}
    THEN ValidationError("disposition", 0, "", "keys mismatch.")
    ELSE IF ~isinstance_str(disp.v.discharge_location)
    THEN ValidationError("disposition", 0, "discharge_location", "must be string.")
    ELSE IF ~_is_list_of_strings(disp.v.supporting_eids)
    THEN ValidationError("disposition", 0, "supporting_eids", "must be list[str].")
    ELSE NoExc

validate_summary(summary) ==
    IF ~isinstance_dict(summary)
    THEN ValidationError("end_of_admission_summary", 0, "", "must be an object.")
    ELSE IF DOMAIN summary.v # SUMMARY_KEYS
    THEN ValidationError("end_of_admission_summary", 0, "", "keys mismatch.")
    ELSE IF ~isinstance_str(summary.v.relative_discharge_time)
    THEN ValidationError("end_of_admission_summary", 0, "relative_discharge_time", "must be string.")
    ELSE IF ~isinstance_str(summary.v.one_paragraph_summary)
    THEN ValidationError("end_of_admission_summary", 0, "one_paragraph_summary", "must be string.")
    ELSE first_failure(<<
            _validate_obj_list(summary.v.problem_list, PROBLEM_KEYS, "problem_list"),
            _validate_obj_list(summary.v.key_tests_and_results, TEST_KEYS, "key_tests_and_results"),
            _validate_obj_list(summary.v.treatments_and_meds, TREATMENT_KEYS, "treatments_and_meds"),
            validate_disposition(summary.v.disposition) >>)

TOP_KEYS == {"conversation", "end_of_admission_summary"}

\* data is a dict (parse_json_response returned it)
validate_output_schema(data) ==
    IF DOMAIN data.v \ TOP_KEYS # {}
    THEN ValidationError("top", 0, "", "Unexpected top-level keys")
    ELSE IF TOP_KEYS \ DOMAIN data.v # {}
    THEN ValidationError("top", 0, "", "Missing top-level keys")
    ELSE IF ~isinstance_list(data.v.conversation) \/ data.v.conversation.v = <<>>
    THEN ValidationError("conversation", 0, "", "must be a non-empty list.")
    ELSE LET turns == data.v.conversation.v
             conv  == first_failure([i \in 1..Len(turns) |-> validate_turn(turns[i], i)])
         IN  IF conv.exc # "none" THEN conv
             ELSE validate_summary(data.v.end_of_admission_summary)

(***************************************************************************)
(* Packet rows and EIDs (extractor.py, utils.py)                           *)
(***************************************************************************)
\* SQL NULL / Python None in an integer or timestamp column
NULL == -1000000

\* timestamps are whole seconds; parse_dt gives None for a null value
parse_dt(value) == value

\* a difference in minutes rounded toward zero
minutes_since_truncating(start_dt, event_dt) ==
    IF start_dt = NULL THEN NULL
    ELSE IF parse_dt(event_dt) = NULL THEN NULL
    ELSE IF parse_dt(event_dt) >= start_dt THEN (parse_dt(event_dt) - start_dt) \div 60
    ELSE 0 - ((start_dt - parse_dt(event_dt)) \div 60)

\* int((dt - start_dt).total_seconds() // 60): the floor of the difference
minutes_since(start_dt, event_dt) ==
    IF start_dt = NULL THEN NULL
    ELSE IF parse_dt(event_dt) = NULL THEN NULL
    ELSE (parse_dt(event_dt) - start_dt) \div 60

\* an assignment that gives every row of a section the first EID
_attach_first_eid(rows, prefix, admit_dt, candidates, drop_fields) ==
    LET rel(row) ==
            LET hits == SelectSeq(candidates,
                                  LAMBDA f : /\ f \in DOMAIN row
                                             /\ minutes_since(admit_dt, row[f]) # NULL)
            IN  IF hits = <<>> THEN NULL ELSE minutes_since(admit_dt, row[hits[1]])
    IN  [idx \in 1..Len(rows) |->
            [eid |-> eid_string(prefix, 1), t_rel_min |-> rel(rows[idx])]
            @@ [k \in (DOMAIN rows[idx]) \ drop_fields |-> rows[idx][k]]]

\* candidates are the source fields of t_rel_min in their order of
\* preference: the first that gives a value is taken (lines 893-899)
_attach_eids_and_times(rows, prefix, admit_dt, candidates, drop_fields) ==
    LET rel(row) ==
            LET hits == SelectSeq(candidates,
                                  LAMBDA f : /\ f \in DOMAIN row
                                             /\ minutes_since(admit_dt, row[f]) # NULL)
            IN  IF hits = <<>> THEN NULL ELSE minutes_since(admit_dt, row[hits[1]])
    IN  [idx \in 1..Len(rows) |->
            [eid |-> eid_string(prefix, idx), t_rel_min |-> rel(rows[idx])]
            @@ [k \in (DOMAIN rows[idx]) \ drop_fields |-> rows[idx][k]]]

s_PT == <<"P","T">>

s_ADM == <<"A","D","M">>

s_LAB == <<"L","A","B">>

s_DS == <<"D","S">>

SECTION_NAMES == {"discharge", "labs"}

shape_packet(subject_id, hadm_id, admittime, dischtime, discharge_notes, labs) ==
    [ids |-> [subject_id |-> subject_id, hadm_id |-> hadm_id],
     time_basis |-> [admittime |-> admittime, dischtime |-> dischtime],
     patient |-> [eid |-> eid_string(s_PT, 1)],
     admission |-> [eid |-> eid_string(s_ADM, 1)],
     sections |-> [discharge |-> discharge_notes, labs |-> labs]]

\* every "eid" string found by the deep traversal of the packet
flatten_eids(packet) ==
    {packet.patient.eid, packet.admission.eid}
    \cup UNION {{packet.sections[s][i].eid : i \in 1..Len(packet.sections[s])} : s \in SECTION_NAMES}

(***************************************************************************)
(* Evidence enforcement (validation.py)                                    *)
(***************************************************************************)
s_patient == <<"p","a","t","i","e","n","t">>

s_pt == <<"p","t">>

s_admission == <<"a","d","m","i","s","s","i","o","n">>

s_adm == <<"a","d","m">>

\* the alias dict: both packet entities carry a string eid
_build_eid_alias_map(packet) ==
    [a \in {s_patient, s_pt, s_admission, s_adm} |->
        IF a \in {s_patient, s_pt} THEN packet.patient.eid ELSE packet.admission.eid]

\* an alias lookup that does not fold case
normalize_eid_case_sensitive(value, alias_map) ==
    LET key == str_strip(value)
    IN  IF key \in DOMAIN alias_map THEN alias_map[key] ELSE value

\* alias_map.get(value.strip().lower(), value)
normalize_eid(value, alias_map) ==
    LET key == str_lower(str_strip(value))
    IN  IF key \in DOMAIN alias_map THEN alias_map[key] ELSE value

_normalize_eid_list(values, alias_map) ==
    IF ~isinstance_list(values) THEN values
    ELSE JList([i \in 1..Len(values.v) |->
            IF ~isinstance_str(values.v[i]) THEN values.v[i]
            ELSE JStr(normalize_eid(values.v[i].v, alias_map))])

normalize_item(item, key, alias_map) ==
    IF isinstance_dict(item) /\ key \in DOMAIN item.v
    THEN JDict([item.v EXCEPT ![key] = _normalize_eid_list(item.v[key], alias_map)])
    ELSE item

normalize_items(list, key, alias_map) ==
    JList([i \in 1..Len(list.v) |-> normalize_item(list.v[i], key, alias_map)])

\* data has passed validate_output_schema
_normalize_output_eid_aliases_in_place(data, alias_map) ==
    LET summary == data.v.end_of_admission_summary
        summary2 == JDict([summary.v EXCEPT
            !.problem_list = normalize_items(summary.v.problem_list, "supporting_eids", alias_map),
            !.key_tests_and_results =
                normalize_items(summary.v.key_tests_and_results, "supporting_eids", alias_map),
            !.treatments_and_meds =
                normalize_items(summary.v.treatments_and_meds, "supporting_eids", alias_map),
            !.disposition = normalize_item(summary.v.disposition, "supporting_eids", alias_map)])
    IN  JDict([data.v EXCEPT
            !.conversation = normalize_items(data.v.conversation, "evidence_eids", alias_map),
            !.end_of_admission_summary = summary2])

\* the citation sites of a validated response, in the order they are checked
citation_sites(data) ==
    LET summary == data.v.end_of_admission_summary.v
        site(where, list, key) ==
            [i \in 1..Len(list.v) |->
                [where |-> where, idx |-> i, eids |-> list.v[i].v[key].v]]
    IN  site("conversation", data.v.conversation, "evidence_eids")
        \o site("problem_list", summary.problem_list, "supporting_eids")
        \o site("key_tests_and_results", summary.key_tests_and_results, "supporting_eids")
        \o site("treatments_and_meds", summary.treatments_and_meds, "supporting_eids")
        \o <<[where |-> "disposition", idx |-> 0, eids |-> summary.disposition.v.supporting_eids.v]>>

\* a check that reports the first unknown EID of a site only
site_issues_first_only(site, valid_eids) ==
    LET unknown(e) == e.v \notin valid_eids
        bad == SelectSeq(site.eids, unknown)
    IN  IF bad = <<>> THEN <<>>
        ELSE <<MsgPart(site.where, site.idx, "", "references unknown EID", bad[1].v)>>

site_issues(site, valid_eids) ==
    LET unknown(e) == e.v \notin valid_eids
        bad == SelectSeq(site.eids, unknown)
    IN  [i \in 1..Len(bad) |->
            MsgPart(site.where, site.idx, "", "references unknown EID", bad[i].v)]

\* evidence enforcement that records the issues and never raises
enforce_evidence_never_raises(data, packet, strict) ==
    LET alias_map  == _build_eid_alias_map(packet)
        normalized == _normalize_output_eid_aliases_in_place(data, alias_map)
        valid_eids == flatten_eids(packet)
        sites      == citation_sites(normalized)
        issues     == FlattenSeq([i \in 1..Len(sites) |-> site_issues(sites[i], valid_eids)])
    IN  [res |-> NoExc, data |-> normalized, issues |-> issues]

\* evidence enforcement that raises whatever the strict flag
enforce_evidence_always_strict(data, packet, strict) ==
    LET alias_map  == _build_eid_alias_map(packet)
        normalized == _normalize_output_eid_aliases_in_place(data, alias_map)
        valid_eids == flatten_eids(packet)
        sites      == citation_sites(normalized)
        issues     == FlattenSeq([i \in 1..Len(sites) |-> site_issues(sites[i], valid_eids)])
    IN  [res |-> IF issues # <<>>
                 THEN [exc |-> "ValidationError", msg |-> issues]
                 ELSE NoExc,
         data |-> normalized,
         issues |-> issues]

enforce_evidence_references(data, packet, strict) ==
    LET alias_map  == _build_eid_alias_map(packet)
        normalized == _normalize_output_eid_aliases_in_place(data, alias_map)
        valid_eids == flatten_eids(packet)
        sites      == citation_sites(normalized)
        issues     == FlattenSeq([i \in 1..Len(sites) |-> site_issues(sites[i], valid_eids)])
    IN  [res |-> IF issues # <<>> /\ strict
                 THEN [exc |-> "ValidationError", msg |-> issues]
                 ELSE NoExc,
         data |-> normalized,
         issues |-> issues]

(***************************************************************************)
(* Responses a model may return: well-formed ones built from the output    *)
(* schema of the prompt, and variants with one part changed                *)
(***************************************************************************)
s_ok == <<"o","k">>

EidList(strs) == JList([i \in 1..Len(strs) |-> JStr(strs[i])])

Turn(i, speaker, cites) ==
    [turn_id |-> JInt(i), speaker |-> JStr(speaker), relative_time |-> JStr(s_ok),
     text |-> JStr(s_ok), evidence_eids |-> EidList(cites)]

Problem(cites) ==
    [problem |-> JStr(s_ok), status_at_discharge |-> JStr(s_ok), supporting_eids |-> EidList(cites)]

Test(cites) ==
    [test |-> JStr(s_ok), result |-> JStr(s_ok), relative_time |-> JStr(s_ok),
     supporting_eids |-> EidList(cites)]

Treatment(cites) ==
    [treatment_or_med |-> JStr(s_ok), details |-> JStr(s_ok), supporting_eids |-> EidList(cites)]

Disposition(cites) ==
    [discharge_location |-> JStr(s_ok), supporting_eids |-> EidList(cites)]

Summary(pl, kt, tm, dp) ==
    [relative_discharge_time |-> JStr(s_ok), one_paragraph_summary |-> JStr(s_ok),
     problem_list |-> pl, key_tests_and_results |-> kt, treatments_and_meds |-> tm,
     disposition |-> dp]

Response(conversation, summary) ==
    JDict([conversation |-> conversation, end_of_admission_summary |-> summary])

\* a well-formed response citing c.t1, c.t2 in its two turns and c.pl, c.kt,
\* c.tm, c.dp in its summary
CiteResponse(c) ==
    Response(JList(<<JDict(Turn(1, s_PATIENT, c.t1)), JDict(Turn(2, s_ATTENDING, c.t2))>>),
             JDict(Summary(JList(<<JDict(Problem(c.pl))>>), JList(<<JDict(Test(c.kt))>>),
                           JList(<<JDict(Treatment(c.tm))>>), JDict(Disposition(c.dp)))))

CITE_SITES == {"t1", "t2", "pl", "kt", "tm", "dp"}

PT1 == eid_string(s_PT, 1)

ADM1 == eid_string(s_ADM, 1)

LAB1 == eid_string(s_LAB, 1)

LAB2 == eid_string(s_LAB, 2)

DS1 == eid_string(s_DS, 1)

LAB999999 == eid_string(s_LAB, 999999)

NoCites == [s \in CITE_SITES |-> <<>>]

GoodCites == [NoCites EXCEPT !.t1 = <<DS1>>, !.t2 = <<PT1, DS1>>, !.dp = <<ADM1>>]

BaseSummary == JDict(Summary(JList(<<JDict(Problem(<<DS1>>))>>), JList(<<JDict(Test(<<>>))>>),
                             JList(<<JDict(Treatment(<<>>))>>), JDict(Disposition(<<ADM1>>))))

BaseConversation == JList(<<JDict(Turn(1, s_PATIENT, <<DS1>>)), JDict(Turn(2, s_NURSE, <<>>))>>)

\* citation lists tried at every site
CiteChoices == {<<>>, <<LAB1>>, <<LAB999999, PT1, LAB2>>}

CiteGrid == {CiteResponse(c) : c \in [CITE_SITES -> CiteChoices]}

\* citation strings around the alias vocabulary
AliasProbes ==
    { s_pt, <<"P","t">>, s_PT, <<"p","T">>,
      s_patient, <<"P","a","t","i","e","n","t">>, s_PATIENT,
      s_adm, <<"A","d","m">>, s_ADM,
      s_admission, <<"A","D","M","I","S","S","I","O","N">>,
      <<" ","p","t">>, <<"P","t"," ">>, <<"\t","A","d","m","\n">>, <<" ","a","d","m","i","s","s","i","o","n"," ">>,
      <<"p","t","x">>, <<"p"," ","t">>, <<"p","a","t">>, <<"a","d","m","i","t">>, <<>>, <<" ">>,
      PT1, ADM1, str_lower(PT1), LAB1 }

ProbeResponses ==
    {CiteResponse([NoCites EXCEPT !.t1 = <<DS1, a, ADM1>>, !.pl = <<a, a>>, !.dp = <<b>>])
        : a \in AliasProbes, b \in {s_adm, <<"P","t">>, LAB999999}}

TurnIdValues ==
    {JInt(0), JInt(1), JInt(2), JInt(3), JBool(TRUE), JBool(FALSE), JFloat(1), JFloat(2),
     JStr(<<"1">>), JNull}

SpeakerValues ==
    {JStr(s_PATIENT), JStr(s_CONSULT), JStr(s_patient), JStr(<<"D","O","C","T","O","R">>), JStr(<<>>),
     JInt(1), JBool(TRUE), JNull, JFloat(1), JList(<<>>), JList(<<JStr(s_PATIENT)>>),
     JDict([role |-> JStr(s_PATIENT)])}

WrongStrings == {JInt(1), JNull, JBool(FALSE), JList(<<JStr(s_ok)>>)}

WrongStringLists == {JStr(s_ok), JNull, JList(<<JStr(DS1), JInt(1)>>), JList(<<JNull>>), JDict([a |-> JStr(DS1)])}

TurnVariants(i) ==
    LET b == Turn(i, s_PATIENT, <<DS1>>)
    IN  { JDict(b) }
        \cup { JDict([b EXCEPT !.turn_id = x]) : x \in TurnIdValues }
        \cup { JDict([b EXCEPT !.speaker = x]) : x \in SpeakerValues }
        \cup { JDict([b EXCEPT !.relative_time = x]) : x \in WrongStrings }
        \cup { JDict([b EXCEPT !.text = x]) : x \in WrongStrings }
        \cup { JDict([b EXCEPT !.evidence_eids = x]) : x \in WrongStringLists }
        \cup { JDict([k \in TURN_KEYS \ {d} |-> b[k]]) : d \in TURN_KEYS }
        \cup { JDict(b @@ [note |-> JStr(s_ok)]), JStr(s_ok), JList(<<>>), JNull, JInt(i) }

ConversationVariants ==
    { JList(<<t1, t2>>) : t1 \in TurnVariants(1), t2 \in {JDict(Turn(2, s_NURSE, <<>>))} }
    \cup { JList(<<t1, t2>>) : t1 \in {JDict(Turn(1, s_PATIENT, <<DS1>>))}, t2 \in TurnVariants(2) }
    \cup { JList(<<JDict([Turn(1, s_PATIENT, <<>>) EXCEPT !.speaker = sp]),
                   JDict([Turn(2, s_NURSE, <<>>) EXCEPT !.turn_id = id])>>)
            : sp \in {JList(<<>>), JInt(1)}, id \in {JInt(1), JBool(TRUE)} }
    \cup { JList(<<>>), JList(<<JDict(Turn(1, s_RESIDENT, <<>>))>>), JNull, JStr(s_ok),
           JDict([turn_id |-> JInt(1)]) }

ItemVariants(b) ==
    { JDict([b EXCEPT ![k] = x]) : k \in (DOMAIN b) \ {"supporting_eids"}, x \in WrongStrings }
    \cup { JDict([b EXCEPT !.supporting_eids = x]) : x \in WrongStringLists }
    \cup { JDict([k \in (DOMAIN b) \ {d} |-> b[k]]) : d \in DOMAIN b }
    \cup { JDict(b @@ [note |-> JStr(s_ok)]), JStr(s_ok), JNull }

ListVariants(b) == { JList(<<x>>) : x \in ItemVariants(b) } \cup { JList(<<>>), JNull, JDict(b) }

SummaryVariants ==
    LET s == BaseSummary.v
    IN  { JDict([s EXCEPT !.problem_list = x]) : x \in ListVariants(Problem(<<DS1>>)) }
        \cup { JDict([s EXCEPT !.key_tests_and_results = x]) : x \in ListVariants(Test(<<DS1>>)) }
        \cup { JDict([s EXCEPT !.treatments_and_meds = x]) : x \in ListVariants(Treatment(<<DS1>>)) }
        \cup { JDict([s EXCEPT !.disposition = x]) : x \in ItemVariants(Disposition(<<DS1>>)) }
        \cup { JDict([s EXCEPT !.relative_discharge_time = x]) : x \in WrongStrings }
        \cup { JDict([s EXCEPT !.one_paragraph_summary = x]) : x \in WrongStrings }
        \cup { JDict([k \in SUMMARY_KEYS \ {d} |-> s[k]]) : d \in SUMMARY_KEYS }
        \cup { JDict(s @@ [note |-> JStr(s_ok)]), JNull, JList(<<>>), JStr(s_ok) }

SchemaProbes ==
    { Response(c, BaseSummary) : c \in ConversationVariants }
    \cup { Response(BaseConversation, s) : s \in SummaryVariants }
    \cup { JDict([conversation |-> BaseConversation]),
           JDict([end_of_admission_summary |-> BaseSummary]),
           JDict([conversation |-> BaseConversation, end_of_admission_summary |-> BaseSummary,
                  notes |-> JStr(s_ok)]),
           JDict([notes |-> JStr(s_ok)]) }

\* top-level values that are JSON but no object
NonObjects == {JNull, JInt(1), JStr(s_ok), JList(<<Response(BaseConversation, BaseSummary)>>), JBool(TRUE)}

ValTexts ==
    {TextGarbage}
    \cup {TextOf(x) : x \in NonObjects \cup SchemaProbes \cup CiteGrid \cup ProbeResponses}

\* packets with one discharge note and n lab rows
SamplePacket(n) ==
    shape_packet(1, 10, 100, 400,
        _attach_eids_and_times(<<[note_id |-> 1, subject_id |-> 1, hadm_id |-> 10, charttime |-> 390]>>,
                               s_DS, 100, <<"charttime">>, {"subject_id", "hadm_id"}),
        _attach_eids_and_times([i \in 1..n |-> [labevent_id |-> i, subject_id |-> 1, hadm_id |-> 10,
                                                charttime |-> 100 + i]],
                               s_LAB, 100, <<"charttime", "storetime">>, {"subject_id", "hadm_id"}))

ValPackets == {SamplePacket(n) : n \in 0..MaxLabRows}

(***************************************************************************)
(* Source tables (the CSV views of duckdb_store.py)                        *)
(***************************************************************************)
hosp_patients == { [subject_id |-> 1], [subject_id |-> 2] }

hosp_admissions ==
    { [subject_id |-> 1, hadm_id |-> 10, admittime |-> 100, dischtime |-> 400],
      [subject_id |-> 1, hadm_id |-> 20, admittime |-> 500, dischtime |-> 900],
      [subject_id |-> 1, hadm_id |-> 30, admittime |-> NULL, dischtime |-> NULL],
      [subject_id |-> 1, hadm_id |-> 40, admittime |-> 100, dischtime |-> 400],
      [subject_id |-> 2, hadm_id |-> 50, admittime |-> NULL, dischtime |-> NULL],
      [subject_id |-> 2, hadm_id |-> 60, admittime |-> NULL, dischtime |-> NULL] }

note_discharge ==
    { [note_id |-> 1, subject_id |-> 1, hadm_id |-> 10, note_seq |-> 1, charttime |-> 390],
      [note_id |-> 2, subject_id |-> 1, hadm_id |-> 20, note_seq |-> 1, charttime |-> 890],
      [note_id |-> 3, subject_id |-> 1, hadm_id |-> 30, note_seq |-> 1, charttime |-> NULL],
      [note_id |-> 4, subject_id |-> 2, hadm_id |-> 50, note_seq |-> 1, charttime |-> NULL],
      [note_id |-> 5, subject_id |-> 2, hadm_id |-> 60, note_seq |-> 1, charttime |-> NULL] }

hosp_labevents ==
    { [labevent_id |-> 1, subject_id |-> 1, hadm_id |-> 10, charttime |-> 150],
      [labevent_id |-> 2, subject_id |-> 1, hadm_id |-> 20, charttime |-> 600],
      [labevent_id |-> 3, subject_id |-> 1, hadm_id |-> 20, charttime |-> 550] }

SUBJECTS == {r.subject_id : r \in hosp_patients}

HADM_IDS == {r.hadm_id : r \in hosp_admissions}

\* the rows an unqualified table name resolves to: the subject-scoped temp
\* table once prepare_subject_cache has created it, else the CSV view
scoped(rows, cached) == IF cached = NULL THEN rows ELSE {r \in rows : r.subject_id = cached}

RECURSIVE lex_less(_, _)
lex_less(a, b) ==
    IF a = <<>> THEN FALSE
    ELSE IF Head(a) # Head(b) THEN Head(a) < Head(b)
    ELSE lex_less(Tail(a), Tail(b))

\* ascending by key; the keys used are total on the rows sorted
RECURSIVE sort_by(_, _)
sort_by(rows, key) ==
    IF rows = {} THEN <<>>
    ELSE LET m == CHOOSE x \in rows : \A y \in rows : ~lex_less(key[y], key[x])
         IN  <<m>> \o sort_by(rows \ {m}, key)

\* an order that puts the rows without a time first
nulls_first(t) == IF t = NULL THEN <<0, 0>> ELSE <<1, t>>

\* ORDER BY t ASC NULLS LAST
nulls_last(t) == IF t = NULL THEN <<1, 0>> ELSE <<0, t>>

(***************************************************************************)
(* extractor.py                                                            *)
(***************************************************************************)
\* config.extraction defaults
require_discharge_note == TRUE

only_admissions_with_discharge == TRUE

\* a listing that ignores max_admissions
list_admissions_uncapped(cached, subject_id, only_with_discharge, max_admissions) ==
    LET owd  == IF only_with_discharge = NULL THEN only_admissions_with_discharge
                ELSE only_with_discharge = 1
        base == {[subject_id |-> a.subject_id, hadm_id |-> a.hadm_id, admittime |-> a.admittime,
                  dischtime |-> a.dischtime,
                  discharge_note_count |->
                      Cardinality({n \in scoped(note_discharge, cached) :
                                      n.subject_id = a.subject_id /\ n.hadm_id = a.hadm_id})]
                 : a \in {x \in scoped(hosp_admissions, cached) : x.subject_id = subject_id}}
        kept == IF owd THEN {r \in base : r.discharge_note_count > 0} ELSE base
        rows == sort_by(kept, [r \in kept |-> nulls_last(r.admittime) \o <<r.hadm_id>>])
    IN  rows

\* extractor.py lines 33-63
list_admissions_for_subject(cached, subject_id, only_with_discharge, max_admissions) ==
    LET owd  == IF only_with_discharge = NULL THEN only_admissions_with_discharge
                ELSE only_with_discharge = 1
        base == {[subject_id |-> a.subject_id, hadm_id |-> a.hadm_id, admittime |-> a.admittime,
                  dischtime |-> a.dischtime,
                  discharge_note_count |->
                      Cardinality({n \in scoped(note_discharge, cached) :
                                      n.subject_id = a.subject_id /\ n.hadm_id = a.hadm_id})]
                 : a \in {x \in scoped(hosp_admissions, cached) : x.subject_id = subject_id}}
        kept == IF owd THEN {r \in base : r.discharge_note_count > 0} ELSE base
        rows == sort_by(kept, [r \in kept |-> nulls_last(r.admittime) \o <<r.hadm_id>>])
    IN  IF max_admissions = NULL \/ max_admissions >= Len(rows) THEN rows
        ELSE SubSeq(rows, 1, max_admissions)

ValueError(hadm_id, what) ==
    [exc |-> "ValueError", msg |-> <<MsgPart("extract", hadm_id, "", what, <<>>)>>]

\* an extractor that never refuses an admission without discharge note
missing_discharge_note_ignored(discharge_notes) == FALSE

\* "require_discharge_note and not discharge_notes" (line 347)
missing_discharge_note(discharge_notes) == require_discharge_note /\ discharge_notes = <<>>

extract_admission_packet(cached, subject_id, hadm_id) ==
    LET adm_patient == {a \in scoped(hosp_admissions, cached) :
                           /\ a.subject_id = subject_id /\ a.hadm_id = hadm_id
                           /\ \E p \in scoped(hosp_patients, cached) : p.subject_id = a.subject_id}
        adm  == CHOOSE a \in adm_patient : TRUE
        labs_strict == {r \in scoped(hosp_labevents, cached) :
                           r.subject_id = subject_id /\ r.hadm_id = hadm_id}
        labs == sort_by(labs_strict,
                        [r \in labs_strict |-> nulls_last(r.charttime) \o <<r.labevent_id>>])
        notes == {r \in scoped(note_discharge, cached) :
                     r.subject_id = subject_id /\ r.hadm_id = hadm_id}
        discharge_notes == sort_by(notes, [r \in notes |-> <<r.note_seq>>])
    IN  IF adm_patient = {}
        THEN [res |-> ValueError(hadm_id, "Admission not found"), packet |-> JNull]
        ELSE IF parse_dt(adm.admittime) = NULL
        THEN [res |-> ValueError(hadm_id, "missing admittime"), packet |-> JNull]
        ELSE IF missing_discharge_note(discharge_notes)
        THEN [res |-> ValueError(hadm_id, "has no discharge note"), packet |-> JNull]
        ELSE [res |-> NoExc,
              packet |-> shape_packet(subject_id, hadm_id, adm.admittime, adm.dischtime,
                  _attach_eids_and_times(discharge_notes, s_DS, adm.admittime, <<"charttime">>,
                                         {"subject_id", "hadm_id"}),
                  _attach_eids_and_times(labs, s_LAB, adm.admittime, <<"charttime", "storetime">>,
                                         {"subject_id", "hadm_id"}))]

(***************************************************************************)
(* prompting.py and utils.py                                               *)
(***************************************************************************)
EmptyText == [kind |-> "empty", val |-> JNull]

\* a serialization that loses the data
dumps_nothing(data) == EmptyText

\* key-sorted compact JSON: the one text json.loads maps back to data
canonical_json_dumps(data) == [kind |-> "json", val |-> data]

SYSTEM_MESSAGE == <<[seg |-> "system", val |-> EmptyText]>>

REPAIR_BLOCK == [seg |-> "repair", val |-> EmptyText]

render_prompt(pkt, previous_admission_summary) ==
    [system_message |-> SYSTEM_MESSAGE,
     user_message |-> << [seg |-> "metadata", val |-> [kind |-> "ids", val |-> pkt.ids]],
                         [seg |-> "prev_summary", val |-> previous_admission_summary],
                         [seg |-> "ehr_json", val |-> canonical_json_dumps(pkt)],
                         [seg |-> "task", val |-> EmptyText] >>]

\* a repair message that drops the original prompt
repair_block_only(message) == <<REPAIR_BLOCK>>

\* f"{user_message}\n\n{REPAIR_BLOCK}"
append_repair_block(message) == message \o <<REPAIR_BLOCK>>

(***************************************************************************)
(* llm_client.py and pipeline.py                                           *)
(***************************************************************************)
\* texts the model may answer with in a run of the pipeline
LLMTexts ==
    { TextOf(CiteResponse(GoodCites)),
      TextOf(CiteResponse([NoCites EXCEPT !.t1 = <<DS1, <<"P","t">>>>, !.dp = <<s_adm>>])),
      TextGarbage,
      TextOf(Response(JList(<<JDict(Turn(2, s_PATIENT, <<DS1>>))>>), BaseSummary)),
      TextOf(CiteResponse([GoodCites EXCEPT !.t2 = <<LAB999999>>, !.dp = <<DS1, LAB999999>>])),
      TextOf(Response(JList(<<JDict([Turn(1, s_PATIENT, <<DS1>>) EXCEPT
                                        !.speaker = JList(<<JStr(s_PATIENT)>>)])>>), BaseSummary)) }

OSError(name) == [exc |-> "OSError", msg |-> <<MsgPart("write", 0, name, "write failed", <<>>)>>]

RuntimeError(total_attempts) ==
    [exc |-> "RuntimeError",
     msg |-> <<MsgPart("transport", total_attempts, "", "Model call failed after attempts", <<>>)>>]

LLMAttempt(idx, status) == [attempt_index |-> idx, status |-> status]

NoResult == [text |-> EmptyText, attempts |-> <<>>]

\* a transport loop that tries once more than configured
total_attempts_one_more(limit) == limit + 1

\* total_attempts = max(1, int(retry_limit)) of generate_with_retries
total_attempts_of(limit) == IF limit < 1 THEN 1 ELSE limit

\* max_attempts = max(1, int(self.config.model.retry_limit)) of _generate_validated_response
max_attempts_of(limit) == IF limit < 1 THEN 1 ELSE limit

\* a log that keeps the index every attempt had in its own round
renumber_nothing(atts) == atts

\* for idx, attempt in enumerate(aggregated_attempts, start=1): attempt.attempt_index = idx
renumber(atts) == [i \in 1..Len(atts) |-> [atts[i] EXCEPT !.attempt_index = i]]

ERROR_SEPARATOR == MsgPart("|", 0, "", "", <<>>)

\* ' | '.join(validation_errors)
RECURSIVE join_errors(_)
join_errors(errors) ==
    IF errors = <<>> THEN <<>>
    ELSE IF Len(errors) = 1 THEN errors[1]
    ELSE errors[1] \o <<ERROR_SEPARATOR>> \o join_errors(Tail(errors))

\* a failure message that keeps the error of the last round only
GenerationFailedLastOnly(max_attempts, errors) ==
    [exc |-> "ValidationError",
     msg |-> <<MsgPart("generate", max_attempts, "", "failed validation after schema attempts", <<>>)>>
             \o Last(errors)]

GenerationFailed(max_attempts, errors) ==
    [exc |-> "ValidationError",
     msg |-> <<MsgPart("generate", max_attempts, "", "failed validation after schema attempts", <<>>)>>
             \o join_errors(errors)]

PendingEntry(hadm_id) ==
    [hadm_id |-> hadm_id, status |-> "pending", error |-> <<>>, conversation_turns |-> 0]

\* admission_entry['status'] = 'completed'; admission_entry['conversation_turns'] = len(...)
mark_completed(manifest, turns) ==
    [manifest EXCEPT ![Len(manifest)].status = "completed",
                     ![Len(manifest)].conversation_turns = turns]

\* an except clause that marks the first entry of the manifest
mark_error_first(manifest, msg) ==
    [manifest EXCEPT ![1].status = "error", ![1].error = msg]

\* an except clause that sets the status and drops the message
mark_error_no_message(manifest, msg) ==
    [manifest EXCEPT ![Len(manifest)].status = "error"]

\* admission_entry['status'] = 'error'; admission_entry['error'] = str(exc)
mark_error(manifest, msg) ==
    [manifest EXCEPT ![Len(manifest)].status = "error", ![Len(manifest)].error = msg]

_tag_conversation_rows(subject_id, hadm_id, conversation) ==
    [i \in 1..Len(conversation.v) |->
        [subject_id |-> subject_id, hadm_id |-> hadm_id, row |-> conversation.v[i]]]

_speaker_text_only(conversation) ==
    [i \in 1..Len(conversation.v) |->
        [speaker |-> conversation.v[i].v.speaker, text |-> conversation.v[i].v.text]]

INPUT_FILES == <<"packet.json", "input_data_manifest.json", "prompt_record.json">>

OUTPUT_FILES == <<"raw_model_output.json", "conversation.jsonl", "conversation_details.jsonl",
                  "conversation_only.json", "summary.json", "model_call_record.json">>

ValOff ==
    /\ val_pc = "off"
    /\ val_text = TextGarbage
    /\ val_packet = JNull
    /\ val_strict = FALSE
    /\ val_data = JNull
    /\ val_exc = NoExc
    /\ val_issues = <<>>

PipeOff ==
    /\ _cached_subject_id = NULL
    /\ cache_builds = 0
    /\ prepare_calls = 0
    /\ pc = "idle"
    /\ exc = NoExc
    /\ subject = NULL
    /\ admissions = <<>>
    /\ adm_i = 0
    /\ patient_manifest = <<>>
    /\ prev_summary_text = EmptyText
    /\ patient_conversation_details_rows = <<>>
    /\ patient_conversation_only_rows = <<>>
    /\ extraction_packet = JNull
    /\ system_message = <<>>
    /\ user_message = <<>>
    /\ parsed = JNull
    /\ schema_attempt = 0
    /\ validation_errors = <<>>
    /\ aggregated_attempts = <<>>
    /\ current_user_message = <<>>
    /\ latest_result = NoResult
    /\ attempt_idx = 0
    /\ attempts = <<>>
    /\ calls = <<>>
    /\ verdicts = <<>>
    /\ disk_manifest = <<>>
    /\ disk_files = {}
    /\ disk_conversation = [h \in HADM_IDS |-> JNull]
    /\ disk_summary = [h \in HADM_IDS |-> JNull]
    /\ disk_details = <<>>
    /\ disk_only = <<>>

ExtOff ==
    /\ ext_pc = "off"
    /\ ext_in = JNull
    /\ ext_rows = JNull
    /\ ext_counts = JNull
    /\ section_lists = JNull
    /\ truncation_stats = JNull
    /\ ext_packet = JNull
    /\ input_data_manifest = JNull
    /\ prompt_record = JNull
    /\ ext_first = JNull

Init ==
    /\ ValOff
    /\ PipeOff
    /\ ExtOff
    /\ retry_limit \in 0..MaxRetry
    /\ entry_in = JNull
    /\ strict_validation \in BOOLEAN

\* a store that rebuilds the temp tables on every call
prepare_subject_cache_rebuilds(cached, builds, subject_id) ==
    [cached |-> subject_id, builds |-> builds + 1]

\* returns at once when the id is the cached one; else replaces every temp
\* table by the subject's rows of main and records the id
prepare_subject_cache(cached, builds, subject_id) ==
    IF cached = subject_id THEN [cached |-> cached, builds |-> builds]
    ELSE [cached |-> subject_id, builds |-> builds + 1]

\* generate_patient_sample up to the admission loop (lines 81-131), called
\* with one of the given argument lists; the locals of the call start fresh
EnterPatientSample(args) ==
    /\ \E a \in args :
        LET subject_id == a.subject_id
            hadm_id == a.hadm_id
            listed == list_admissions_for_subject(_cached_subject_id, subject_id,
                                                  a.only_with_discharge, a.max_admissions)
            kept   == IF hadm_id = NULL THEN listed
                      ELSE SelectSeq(listed, LAMBDA x : x.hadm_id = hadm_id)
            store  == prepare_subject_cache(_cached_subject_id, cache_builds, subject_id)
        IN  /\ subject' = subject_id
            /\ IF kept = <<>>
               THEN /\ pc' = "raised"
                    /\ exc' = ValueError(0, "No admissions found")
                    /\ admissions' = <<>>
                    /\ adm_i' = 0
                    /\ UNCHANGED <<store_vars, disk_manifest, artifact_vars>>
               ELSE /\ pc' = "loop"
                    /\ exc' = NoExc
                    /\ admissions' = kept
                    /\ adm_i' = 1
                    \* prepare_subject_cache, then _reset_patient_output_dir
                    /\ _cached_subject_id' = store.cached
                    /\ cache_builds' = store.builds
                    /\ prepare_calls' = prepare_calls + 1
                    /\ disk_manifest' = <<>>
                    /\ disk_files' = {}
                    /\ disk_conversation' = [h \in HADM_IDS |-> JNull]
                    /\ disk_summary' = [h \in HADM_IDS |-> JNull]
                    /\ disk_details' = <<>>
                    /\ disk_only' = <<>>
    /\ patient_manifest' = <<>>
    /\ prev_summary_text' = EmptyText
    /\ patient_conversation_details_rows' = <<>>
    /\ patient_conversation_only_rows' = <<>>
    /\ extraction_packet' = JNull
    /\ system_message' = <<>>
    /\ user_message' = <<>>
    /\ parsed' = JNull
    /\ schema_attempt' = 0
    /\ validation_errors' = <<>>
    /\ aggregated_attempts' = <<>>
    /\ current_user_message' = <<>>
    /\ latest_result' = NoResult
    /\ attempt_idx' = 0
    /\ attempts' = <<>>
    /\ calls' = <<>>
    /\ verdicts' = <<>>
    /\ UNCHANGED <<val_vars, ext_vars, config_vars>>

\* the arguments of a call: subject_id, hadm_id, max_admissions, only_with_discharge
EntryArgs ==
    [subject_id : SUBJECTS, hadm_id : {NULL} \cup HADM_IDS,
     max_admissions : {NULL} \cup (1..MaxCap), only_with_discharge : {NULL, 0, 1}]

\* the first call on a pipeline
Start ==
    /\ pc = "idle"
    /\ EnterPatientSample(EntryArgs)

\* the first call on a pipeline, with the arguments drawn at the start
StartGiven ==
    /\ pc = "idle"
    /\ EnterPatientSample({entry_in})

\* a following call on the same pipeline, for a whole patient, after the
\* call before it has returned or raised
StartAgain ==
    /\ pc \in {"returned", "raised"}
    /\ prepare_calls < MaxRuns
    /\ EnterPatientSample({a \in EntryArgs : a.hadm_id = NULL})

\* top of the loop body: the pending entry and its manifest write (lines 132-152);
\* the write is outside the try block, so its failure propagates at once
BeginAdmission ==
    /\ pc = "loop"
    /\ adm_i <= Len(admissions)
    /\ patient_manifest' = Append(patient_manifest, PendingEntry(admissions[adm_i].hadm_id))
    /\ \E written \in BOOLEAN :
        IF written
        THEN /\ disk_manifest' = patient_manifest'
             /\ pc' = "extract"
             /\ exc' = NoExc
        ELSE /\ disk_manifest' = disk_manifest
             /\ pc' = "raised"
             /\ exc' = OSError("patient_manifest.json")
    /\ calls' = <<>>
    /\ verdicts' = <<>>
    /\ UNCHANGED <<val_vars, ext_vars, config_vars, store_vars, loop_vars, prompt_vars, parsed,
                   gen_vars, artifact_vars>>

\* line 155
Extract ==
    /\ pc = "extract"
    /\ LET r == extract_admission_packet(_cached_subject_id, subject, admissions[adm_i].hadm_id)
       IN  IF r.res.exc = "none"
           THEN /\ extraction_packet' = r.packet
                /\ pc' = "write_inputs"
                /\ exc' = NoExc
           ELSE /\ extraction_packet' = JNull
                /\ pc' = "handler"
                /\ exc' = r.res
    /\ UNCHANGED <<val_vars, ext_vars, config_vars, store_vars, loop_vars, patient_manifest,
                   system_message, user_message, parsed, gen_vars, calls, verdicts,
                   disk_manifest, artifact_vars>>

\* lines 156-176 and the entry of _generate_validated_response (lines 271-277):
\* the three input artifacts are written in order; the first write that fails
\* raises inside the try block
WriteInputs ==
    /\ pc = "write_inputs"
    /\ LET hadm     == admissions[adm_i].hadm_id
           rendered == render_prompt(extraction_packet, prev_summary_text)
       IN  \E n \in 0..Len(INPUT_FILES) :
            /\ disk_files' = disk_files \cup {<<hadm, INPUT_FILES[k]>> : k \in 1..n}
            /\ IF n >= 2
               THEN /\ system_message' = rendered.system_message
                    /\ user_message' = rendered.user_message
               ELSE UNCHANGED <<system_message, user_message>>
            /\ IF n = Len(INPUT_FILES)
               THEN /\ pc' = "transport"
                    /\ exc' = NoExc
                    /\ schema_attempt' = 1
                    /\ validation_errors' = <<>>
                    /\ aggregated_attempts' = <<>>
                    /\ latest_result' = NoResult
                    /\ current_user_message' = rendered.user_message
                    /\ attempt_idx' = 1
                    /\ attempts' = <<>>
               ELSE /\ pc' = "handler"
                    /\ exc' = OSError(INPUT_FILES[n + 1])
                    /\ UNCHANGED gen_vars
    /\ UNCHANGED <<val_vars, ext_vars, config_vars, store_vars, loop_vars, patient_manifest,
                   extraction_packet, parsed, calls, verdicts, disk_manifest,
                   disk_conversation, disk_summary, disk_details, disk_only>>

\* one iteration of the loop of generate_with_retries whose call succeeds (lines 69-94)
TransportOk ==
    /\ pc = "transport"
    /\ \E text \in LLMTexts :
        latest_result' = [text |-> text,
                          attempts |-> Append(attempts, LLMAttempt(attempt_idx, "ok"))]
    /\ calls' = Append(calls, [round |-> schema_attempt, system |-> system_message,
                               user |-> current_user_message, status |-> "ok"])
    /\ pc' = "validate"
    /\ UNCHANGED <<val_vars, ext_vars, config_vars, store_vars, exc, loop_vars, patient_manifest,
                   prompt_vars, parsed, schema_attempt, validation_errors, aggregated_attempts,
                   current_user_message, attempt_idx, attempts, verdicts, disk_manifest,
                   artifact_vars>>

\* one iteration whose call fails (lines 95-107), and the raise after the last (line 109)
TransportError ==
    /\ pc = "transport"
    /\ attempts' = Append(attempts, LLMAttempt(attempt_idx, "error"))
    /\ calls' = Append(calls, [round |-> schema_attempt, system |-> system_message,
                               user |-> current_user_message, status |-> "error"])
    /\ IF attempt_idx >= total_attempts_of(retry_limit)
       THEN /\ pc' = "handler"
            /\ exc' = RuntimeError(total_attempts_of(retry_limit))
            /\ UNCHANGED attempt_idx
       ELSE /\ attempt_idx' = attempt_idx + 1
            /\ UNCHANGED <<pc, exc>>
    /\ UNCHANGED <<val_vars, ext_vars, config_vars, store_vars, loop_vars, patient_manifest,
                   prompt_vars, parsed, schema_attempt, validation_errors, aggregated_attempts,
                   current_user_message, latest_result, verdicts, disk_manifest, artifact_vars>>

\* the body of one round after generate_with_retries has returned (lines 279-293),
\* and the raise after the last round (lines 295-301)
ValidateRound ==
    /\ pc = "validate"
    /\ LET max_attempts == max_attempts_of(retry_limit)
           extended == aggregated_attempts \o latest_result.attempts
           p   == parse_json_response(latest_result.text)
           sch == IF p.res.exc = "none" THEN validate_output_schema(p.data) ELSE p.res
           ev  == IF sch.exc = "none"
                  THEN enforce_evidence_references(p.data, extraction_packet, strict_validation)
                  ELSE [res |-> sch, data |-> JNull, issues |-> <<>>]
       IN  /\ verdicts' = Append(verdicts, [round |-> schema_attempt, res |-> ev.res,
                                            packet |-> extraction_packet])
           /\ CASE ev.res.exc = "none" ->
                    /\ aggregated_attempts' = renumber(extended)
                    /\ latest_result' = [latest_result EXCEPT !.attempts = renumber(extended)]
                    /\ parsed' = ev.data
                    /\ pc' = "persist"
                    /\ UNCHANGED <<exc, schema_attempt, validation_errors, current_user_message,
                                   attempt_idx, attempts>>
                [] ev.res.exc = "ValidationError" ->
                    /\ validation_errors' = Append(validation_errors, ev.res.msg)
                    /\ IF schema_attempt >= max_attempts
                       THEN /\ aggregated_attempts' = renumber(extended)
                            /\ latest_result' = [latest_result EXCEPT !.attempts = renumber(extended)]
                            /\ exc' = GenerationFailed(max_attempts, validation_errors')
                            /\ pc' = "handler"
                            /\ UNCHANGED <<schema_attempt, current_user_message, attempt_idx, attempts>>
                       ELSE /\ aggregated_attempts' = extended
                            /\ current_user_message' = append_repair_block(user_message)
                            /\ schema_attempt' = schema_attempt + 1
                            /\ attempt_idx' = 1
                            /\ attempts' = <<>>
                            /\ pc' = "transport"
                            /\ UNCHANGED <<exc, latest_result>>
                    /\ UNCHANGED parsed
                [] OTHER ->
                    \* not a ValidationError: leaves the loop through no except clause
                    /\ aggregated_attempts' = extended
                    /\ exc' = ev.res
                    /\ pc' = "handler"
                    /\ UNCHANGED <<parsed, schema_attempt, validation_errors, current_user_message,
                                   latest_result, attempt_idx, attempts>>
    /\ UNCHANGED <<val_vars, ext_vars, config_vars, store_vars, loop_vars, patient_manifest,
                   prompt_vars, calls, disk_manifest, artifact_vars>>

\* lines 183-217: the output artifacts are written in order; the first write
\* that fails raises inside the try block
PersistOutputs ==
    /\ pc = "persist"
    /\ LET hadm == admissions[adm_i].hadm_id
           conversation == parsed.v.conversation
           details == patient_conversation_details_rows
                      \o _tag_conversation_rows(subject, hadm, conversation)
           only == Append(patient_conversation_only_rows,
                          [hadm_id |-> hadm, conversation |-> _speaker_text_only(conversation)])
       IN  \E n \in 0..Len(OUTPUT_FILES) :
            /\ disk_files' = disk_files \cup {<<hadm, OUTPUT_FILES[k]>> : k \in 1..n}
            /\ disk_conversation' = IF n >= 2 THEN [disk_conversation EXCEPT ![hadm] = conversation]
                                    ELSE disk_conversation
            /\ patient_conversation_details_rows' =
                    IF n >= 2 THEN details ELSE patient_conversation_details_rows
            /\ disk_details' = IF n >= 3 THEN details ELSE disk_details
            /\ patient_conversation_only_rows' =
                    IF n >= 3 THEN only ELSE patient_conversation_only_rows
            /\ disk_only' = IF n >= 4 THEN only ELSE disk_only
            /\ disk_summary' = IF n >= 5
                               THEN [disk_summary EXCEPT ![hadm] = parsed.v.end_of_admission_summary]
                               ELSE disk_summary
            /\ IF n = Len(OUTPUT_FILES)
               THEN pc' = "complete" /\ exc' = NoExc
               ELSE pc' = "handler" /\ exc' = OSError(OUTPUT_FILES[n + 1])
    /\ UNCHANGED <<val_vars, ext_vars, config_vars, store_vars, subject, admissions, adm_i,
                   prev_summary_text, patient_manifest, prompt_vars, parsed, gen_vars, calls,
                   verdicts, disk_manifest>>

\* lines 219-226, then the next iteration
Complete ==
    /\ pc = "complete"
    /\ prev_summary_text' = canonical_json_dumps(parsed.v.end_of_admission_summary)
    /\ patient_manifest' = mark_completed(patient_manifest, Len(parsed.v.conversation.v))
    /\ \E written \in BOOLEAN :
        IF written
        THEN /\ disk_manifest' = patient_manifest'
             /\ pc' = "loop"
             /\ adm_i' = adm_i + 1
             /\ exc' = NoExc
        ELSE /\ disk_manifest' = disk_manifest
             /\ pc' = "handler"
             /\ adm_i' = adm_i
             /\ exc' = OSError("patient_manifest.json")
    /\ UNCHANGED <<val_vars, ext_vars, config_vars, store_vars, subject, admissions,
                   patient_conversation_details_rows, patient_conversation_only_rows,
                   prompt_vars, parsed, gen_vars, calls, verdicts, artifact_vars>>

\* an except clause that swallows the error and goes on with the loop
handler_continues == "loop"

\* the bare raise that ends the except clause (line 231)
handler_exit == "raised"

\* the except clause (lines 227-231)
Handler ==
    /\ pc = "handler"
    /\ patient_manifest' = mark_error(patient_manifest, exc.msg)
    /\ \E written \in BOOLEAN :
        IF written
        THEN /\ disk_manifest' = patient_manifest'
             /\ exc' = exc
        ELSE /\ disk_manifest' = disk_manifest
             /\ exc' = OSError("patient_manifest.json")
    /\ pc' = handler_exit
    /\ UNCHANGED <<val_vars, ext_vars, config_vars, store_vars, loop_vars, prompt_vars, parsed,
                   gen_vars, calls, verdicts, artifact_vars>>

\* line 233
Finish ==
    /\ pc = "loop"
    /\ adm_i > Len(admissions)
    /\ pc' = "returned"
    /\ UNCHANGED <<val_vars, ext_vars, config_vars, store_vars, exc, loop_vars, patient_manifest,
                   prompt_vars, parsed, gen_vars, calls, verdicts, disk_manifest, artifact_vars>>

\* the admission loop
Run ==
    \/ BeginAdmission
    \/ Extract
    \/ WriteInputs
    \/ TransportOk
    \/ TransportError
    \/ ValidateRound
    \/ PersistOutputs
    \/ Complete
    \/ Handler
    \/ Finish

Next ==
    \/ Start
    \/ Run

Spec == Init /\ [][Next]_vars

\* one call whose arguments are known from the start
InitEntry ==
    /\ ValOff
    /\ PipeOff
    /\ ExtOff
    /\ retry_limit \in 0..1
    /\ strict_validation \in BOOLEAN
    /\ entry_in \in EntryArgs

NextEntry ==
    \/ StartGiven
    \/ Run

SpecEntry == InitEntry /\ [][NextEntry]_vars

\* several calls of generate_patient_sample on one pipeline
InitRuns ==
    /\ Init
    /\ retry_limit <= 1

NextRuns ==
    \/ Next
    \/ StartAgain

SpecRuns == InitRuns /\ [][NextRuns]_vars

(***************************************************************************)
(* Specification of the validator alone: one response, one packet, and    *)
(* the three validation steps in the order the repair loop runs them       *)
(***************************************************************************)
ValInit ==
    /\ PipeOff
    /\ ExtOff
    /\ retry_limit = 0
    /\ entry_in = JNull
    /\ strict_validation = FALSE
    /\ val_pc = "start"
    /\ val_text \in ValTexts
    /\ val_packet \in ValPackets
    /\ val_strict \in BOOLEAN
    /\ val_data = JNull
    /\ val_exc = NoExc
    /\ val_issues = <<>>

ValParse ==
    /\ val_pc = "start"
    /\ LET r == parse_json_response(val_text)
       IN  /\ val_exc' = r.res
           /\ val_data' = r.data
           /\ val_pc' = IF r.res.exc = "none" THEN "parsed" ELSE "raised_parse"
    /\ UNCHANGED <<val_text, val_packet, val_strict, val_issues, pipe_vars, ext_vars>>

ValSchema ==
    /\ val_pc = "parsed"
    /\ LET r == validate_output_schema(val_data)
       IN  /\ val_exc' = r
           /\ val_pc' = IF r.exc = "none" THEN "validated" ELSE "raised_schema"
    /\ UNCHANGED <<val_text, val_packet, val_strict, val_data, val_issues, pipe_vars, ext_vars>>

ValEvidence ==
    /\ val_pc = "validated"
    /\ LET r == enforce_evidence_references(val_data, val_packet, val_strict)
       IN  /\ val_exc' = r.res
           /\ val_data' = r.data
           /\ val_issues' = r.issues
           /\ val_pc' = IF r.res.exc = "none" THEN "done" ELSE "raised_evidence"
    /\ UNCHANGED <<val_text, val_packet, val_strict, pipe_vars, ext_vars>>

ValNext == ValParse \/ ValSchema \/ ValEvidence

SpecValidate == ValInit /\ [][ValNext]_vars

(***************************************************************************)
(* extract_admission_packet stage by stage (extractor.py lines 65-729):     *)
(* the category queries with their linkage policies, truncation, EIDs, the *)
(* packet with its hash, the input data manifest, and the prompt record    *)
(* that pipeline.py writes from the result                                *)
(***************************************************************************)
\* the sections carried: each has its query, its cap and its EID prefix
EXT_SECTIONS == {"services", "discharge", "radiology", "labs", "poe", "pharmacy", "emar"}

\* a truncation that keeps the last rows
clip_rows_tail(rows, cap) ==
    IF cap = NULL \/ cap < 0 THEN [rows |-> rows, truncated |-> FALSE]
    ELSE IF Len(rows) <= cap THEN [rows |-> rows, truncated |-> FALSE]
    ELSE [rows |-> SubSeq(rows, Len(rows) - cap + 1, Len(rows)), truncated |-> TRUE]

clip_rows(rows, cap) ==
    IF cap = NULL \/ cap < 0 THEN [rows |-> rows, truncated |-> FALSE]
    ELSE IF Len(rows) <= cap THEN [rows |-> rows, truncated |-> FALSE]
    ELSE [rows |-> SubSeq(rows, 1, cap), truncated |-> TRUE]

\* a digest that does not depend on the text
sha256_of_nothing(text) == [kind |-> "sha256", val |-> EmptyText]

\* the digest stands for its text: equal texts, equal digests
sha256_hex(text) == [kind |-> "sha256", val |-> text]

\* the value of packet_stats.sha256_canonical_packet while the hash is computed
NoHash == [kind |-> "none", val |-> JNull]

\* the results fetch_rows may return for a query with ORDER BY: the rows
\* ascending by the keys, rows that tie on every key in any order
order_by(rows, key) ==
    {s \in [1..Cardinality(rows) -> rows] :
        \A i, j \in 1..Cardinality(rows) :
            i < j => s[i] # s[j] /\ ~lex_less(key[s[j]], key[s[i]])}

\* list.sort(key=...): ascending and stable
RECURSIVE sorted_stable(_, _)
sorted_stable(seq, key) ==
    IF seq = <<>> THEN <<>>
    ELSE LET rest == sorted_stable(SubSeq(seq, 1, Len(seq) - 1), key)
             x    == Last(seq)
             p    == Cardinality({i \in 1..Len(rest) : ~lex_less(key[x], key[rest[i]])})
         IN  SubSeq(rest, 1, p) \o <<x>> \o SubSeq(rest, p + 1, Len(rest))

\* a merge that keeps the first row alone
_dedupe_keeps_first(rows, key) == IF rows = <<>> THEN <<>> ELSE <<rows[1]>>

RECURSIVE _dedupe_by_key(_, _)
_dedupe_by_key(rows, key) ==
    IF rows = <<>> THEN <<>>
    ELSE LET init == _dedupe_by_key(SubSeq(rows, 1, Len(rows) - 1), key)
         IN  IF \E i \in 1..Len(init) : init[i][key] = Last(rows)[key]
             THEN init
             ELSE Append(init, Last(rows))

\* a comparison that leaves the two ends of the range out
sql_between_exclusive(x, lo, hi) == x # NULL /\ lo < x /\ x < hi

\* x BETWEEN lo AND hi, which is not true for a NULL x
sql_between(x, lo, hi) == x # NULL /\ lo <= x /\ x <= hi

\* a side channel that returns no note
radiology_unlinked_dropped(note_radiology, subject_id) == {}

\* the rows of "WHERE subject_id = ? AND hadm_id IS NULL" (lines 395-406)
radiology_unlinked(note_radiology, subject_id) ==
    {r \in note_radiology : r.subject_id = subject_id /\ r.hadm_id = NULL}

\* a reference that links nothing
id_never_matches(id, target_ids) == FALSE

\* "x not in (None, '') and str(x) in target_ids"
id_matches(id, target_ids) == id # NULL /\ id \in target_ids

\* the loop classifies every candidate by the branch it leaves by; the rows
\* selected are sorted and merged by emar_id (lines 805-866)
_filter_emar_candidates(emar_candidates, hadm_id, admit_dt, disch_dt, poe, pharmacy, fallback) ==
    LET target_poe_ids == {poe[i].poe_id : i \in 1..Len(poe)} \ {NULL}
        target_pharmacy_ids == {pharmacy[i].pharmacy_id : i \in 1..Len(pharmacy)} \ {NULL}
        link(row) ==
            IF row.hadm_id = hadm_id THEN "direct_hadm"
            ELSE IF row.hadm_id # NULL THEN "excluded_null_hadm"
            ELSE IF id_matches(row.pharmacy_id, target_pharmacy_ids) THEN "linked_via_pharmacy_id"
            ELSE IF id_matches(row.poe_id, target_poe_ids) THEN "linked_via_poe_id"
            ELSE IF /\ fallback
                    /\ parse_dt(row.charttime) # NULL /\ admit_dt # NULL /\ disch_dt # NULL
                    /\ admit_dt <= parse_dt(row.charttime) /\ parse_dt(row.charttime) <= disch_dt
                 THEN "linked_via_time_window"
            ELSE "excluded_null_hadm"
        count(label) == Cardinality({i \in 1..Len(emar_candidates) :
                                        link(emar_candidates[i]) = label})
        selected == SelectSeq(emar_candidates, LAMBDA row : link(row) # "excluded_null_hadm")
        rows == {selected[i] : i \in 1..Len(selected)}
        key == [r \in rows |-> nulls_last(r.charttime) \o nulls_last(r.emar_seq) \o <<r.emar_id>>]
    IN  [selected |-> _dedupe_by_key(sorted_stable(selected, key), "emar_id"),
         counts |-> [direct_hadm |-> count("direct_hadm"),
                     linked_via_pharmacy_id |-> count("linked_via_pharmacy_id"),
                     linked_via_poe_id |-> count("linked_via_poe_id"),
                     linked_via_time_window |-> count("linked_via_time_window"),
                     excluded_null_hadm |-> count("excluded_null_hadm")]]

\* the inputs of a call: the admission row, the source tables and the
\* configuration.  The families: lab rows against the proximal window and
\* the caps, medication-administration rows against the linkage rules and
\* the caps, and service rows that tie on every ORDER BY key
ExtInputs ==
    LET adm(d) == [subject_id |-> 1, hadm_id |-> 10, admittime |-> 6000, dischtime |-> d]
        lab(id, s, h, t, v) == [labevent_id |-> id, subject_id |-> s, hadm_id |-> h,
                                charttime |-> t, storetime |-> NULL, value |-> v]
        LabPool == { lab(1, 1, 10, 15000, 1), lab(2, 1, 10, NULL, 1), lab(3, 1, NULL, 6000, 1),
                     lab(4, 1, NULL, 24000, 1), lab(5, 1, NULL, 27600, 1), lab(6, 1, NULL, 27660, 1),
                     lab(7, 1, NULL, 2400, 1), lab(8, 1, NULL, 2340, 1), lab(9, 1, NULL, NULL, 1),
                     lab(10, 1, 20, 15000, 1), lab(1, 1, NULL, 9000, 2), lab(11, 2, NULL, 15000, 1) }
        em(id, seq, h, t, ph, po) == [emar_id |-> id, emar_seq |-> seq, subject_id |-> 1,
                                      hadm_id |-> h, charttime |-> t, pharmacy_id |-> ph,
                                      poe_id |-> po]
        EmarPool == { em(1, 1, 10, 12000, NULL, NULL), em(2, 2, 10, NULL, 5, 7),
                      em(3, 3, NULL, 59940, 5, 8), em(4, 4, NULL, 59940, 6, 7),
                      em(5, 5, NULL, 9000, 5, 7), em(6, 6, NULL, 6000, 6, 8),
                      em(7, 7, NULL, 24000, NULL, NULL), em(8, 8, NULL, 24060, 6, 8),
                      em(9, 9, NULL, NULL, NULL, NULL), em(10, 1, 20, 12000, 5, 7),
                      em(1, 1, NULL, 12000, 5, NULL) }
        \* lab rows of the admission charted or stored within two minutes of
        \* admittime, before and after it
        timed(id, t, st) == [labevent_id |-> id, subject_id |-> 1, hadm_id |-> 10,
                             charttime |-> t, storetime |-> st, value |-> 1]
        TimePool == { timed(20, 5970, 6100), timed(21, NULL, 6119), timed(22, NULL, NULL),
                      timed(23, 6059, NULL), timed(24, 5940, 5000), timed(25, NULL, 5881) }
        rad(id, s, h, t) == [note_id |-> id, subject_id |-> s, hadm_id |-> h, note_seq |-> id,
                             charttime |-> t]
        RadPool == { rad(1, 1, 10, 9000), rad(2, 1, NULL, 9600), rad(3, 1, NULL, NULL),
                     rad(4, 1, 20, 30000), rad(5, 2, NULL, 9000), rad(6, 1, 10, NULL) }
        svc(t, cur, prev) == [subject_id |-> 1, hadm_id |-> 10, transfertime |-> t,
                              curr_service |-> cur, prev_service |-> prev]
        ServicePool == { svc(6000, 1, 0), svc(6000, 1, 2), svc(12000, 2, 1), svc(NULL, 1, 2) }
        Upto(S) == {T \in SUBSET S : Cardinality(T) <= MaxRows}
        Caps == {NULL, -2} \cup (0..MaxCap)
        caps(s, c) == [x \in EXT_SECTIONS |-> IF x = s THEN c ELSE NULL]
        base == [adm |-> adm(24000), labevents |-> {}, emar |-> {}, services |-> {},
                 poe |-> { [poe_id |-> 7, poe_seq |-> 1, subject_id |-> 1, hadm_id |-> 10,
                            ordertime |-> 7200],
                           [poe_id |-> 8, poe_seq |-> 2, subject_id |-> 1, hadm_id |-> 20,
                            ordertime |-> 31200] },
                 pharmacy |-> { [pharmacy_id |-> 5, subject_id |-> 1, hadm_id |-> 10,
                                 entertime |-> 7800],
                                [pharmacy_id |-> 6, subject_id |-> 1, hadm_id |-> 20,
                                 entertime |-> 31800] },
                 discharge |-> note_discharge, radiology |-> {},
                 include_unlinked_radiology_in_sidecar |-> TRUE,
                 proximal_lab_capture |-> TRUE, proximal_padding_hours |-> 0,
                 emar_time_window_fallback |-> TRUE,
                 per_section_row_caps |-> caps("labs", NULL)]
    IN  { [base EXCEPT !.adm = adm(d), !.labevents = L, !.proximal_lab_capture = p,
                       !.proximal_padding_hours = h] :
              d \in {NULL, 24000}, L \in Upto(LabPool), p \in BOOLEAN, h \in 0..MaxPad }
        \cup { [base EXCEPT !.labevents = L, !.per_section_row_caps = caps("labs", c)] :
              L \in Upto(LabPool), c \in Caps }
        \cup { [base EXCEPT !.adm = adm(d), !.emar = M, !.emar_time_window_fallback = f] :
              d \in {NULL, 24000}, M \in Upto(EmarPool), f \in BOOLEAN }
        \cup { [base EXCEPT !.emar = M, !.per_section_row_caps = caps("emar", c)] :
              M \in Upto(EmarPool), c \in Caps }
        \cup { [base EXCEPT !.services = S, !.per_section_row_caps = caps("services", c)] :
              S \in Upto(ServicePool), c \in Caps }
        \cup { [base EXCEPT !.labevents = L] : L \in Upto(TimePool) }
        \cup { [base EXCEPT !.radiology = R, !.include_unlinked_radiology_in_sidecar = u,
                            !.per_section_row_caps = caps("radiology", c)] :
              R \in Upto(RadPool), u \in BOOLEAN, c \in Caps }

ExtInit ==
    /\ ValOff
    /\ PipeOff
    /\ retry_limit = 0
    /\ entry_in = JNull
    /\ strict_validation = FALSE
    /\ ext_pc = "start"
    /\ ext_in \in ExtInputs
    /\ ext_rows = JNull
    /\ ext_counts = JNull
    /\ section_lists = JNull
    /\ truncation_stats = JNull
    /\ ext_packet = JNull
    /\ input_data_manifest = JNull
    /\ prompt_record = JNull
    /\ ext_first = JNull

\* the category queries, the merge of lab rows and the selection of
\* medication-administration rows (lines 75-345)
ExtQuery ==
    /\ ext_pc = "start"
    /\ LET adm  == ext_in.adm
           own(rows) == {r \in rows : r.subject_id = adm.subject_id /\ r.hadm_id = adm.hadm_id}
           pad  == ext_in.proximal_padding_hours * 3600
           hi   == IF adm.dischtime = NULL THEN adm.admittime ELSE adm.dischtime
           prox == {r \in ext_in.labevents :
                       /\ r.subject_id = adm.subject_id
                       /\ r.hadm_id = NULL
                       /\ sql_between(r.charttime, adm.admittime - pad, hi + pad)}
           cand == {r \in ext_in.emar :
                       /\ r.subject_id = adm.subject_id
                       /\ (r.hadm_id = adm.hadm_id \/ r.hadm_id = NULL)}
           unlinked == IF ext_in.include_unlinked_radiology_in_sidecar
                       THEN radiology_unlinked(ext_in.radiology, adm.subject_id)
                       ELSE {}
           note_key(rows) == [r \in rows |-> nulls_last(r.charttime) \o nulls_last(r.note_seq)]
           lab_key(rows) == [r \in rows |-> nulls_last(r.charttime) \o nulls_last(r.storetime)
                                            \o <<r.labevent_id>>]
       IN  \E services \in order_by(own(ext_in.services),
                                    [r \in own(ext_in.services) |->
                                        nulls_last(r.transfertime) \o <<r.curr_service>>]),
              discharge_notes \in order_by(own(ext_in.discharge),
                                           [r \in own(ext_in.discharge) |-> <<r.note_seq>>]),
              radiology \in order_by(own(ext_in.radiology), note_key(own(ext_in.radiology))),
              unlinked_radiology_notes \in order_by(unlinked, note_key(unlinked)),
              labs_strict \in order_by(own(ext_in.labevents), lab_key(own(ext_in.labevents))),
              labs_prox \in order_by(prox, lab_key(prox)),
              poe \in order_by(own(ext_in.poe),
                               [r \in own(ext_in.poe) |-> nulls_last(r.ordertime) \o <<r.poe_seq>>]),
              pharmacy \in order_by(own(ext_in.pharmacy),
                                    [r \in own(ext_in.pharmacy) |->
                                        nulls_last(r.entertime) \o <<r.pharmacy_id>>]),
              emar_candidates \in order_by(cand, [r \in cand |-> nulls_last(r.charttime)
                                                                \o nulls_last(r.emar_seq)]) :
            LET labs == IF ext_in.proximal_lab_capture
                        THEN _dedupe_by_key(labs_strict \o labs_prox, "labevent_id")
                        ELSE labs_strict
                emar == _filter_emar_candidates(emar_candidates, adm.hadm_id,
                                                parse_dt(adm.admittime), parse_dt(adm.dischtime),
                                                poe, pharmacy, ext_in.emar_time_window_fallback)
            IN  /\ ext_rows' = [services |-> services, discharge |-> discharge_notes,
                                radiology |-> radiology,
                                unlinked_radiology_notes |-> unlinked_radiology_notes,
                                labs |-> labs, poe |-> poe, pharmacy |-> pharmacy,
                                emar |-> emar.selected]
                /\ ext_counts' =
                      [labs |-> [strict_hadm |-> Len(labs_strict),
                                 proximal_null_hadm |-> IF ext_in.proximal_lab_capture
                                                        THEN Len(labs_prox) ELSE 0],
                       emar |-> emar.counts]
    /\ ext_pc' = "queried"
    /\ UNCHANGED <<val_vars, pipe_vars, ext_in, section_lists, truncation_stats, ext_packet,
                   input_data_manifest, prompt_record, ext_first>>

\* the row caps (lines 444-477)
ExtTruncate ==
    /\ ext_pc = "queried"
    /\ section_lists' =
          [s \in EXT_SECTIONS |-> clip_rows(ext_rows[s], ext_in.per_section_row_caps[s]).rows]
    /\ truncation_stats' =
          [s \in EXT_SECTIONS |->
              [seen |-> Len(ext_rows[s]),
               retained |-> Len(clip_rows(ext_rows[s], ext_in.per_section_row_caps[s]).rows),
               cap |-> ext_in.per_section_row_caps[s],
               truncated |-> clip_rows(ext_rows[s], ext_in.per_section_row_caps[s]).truncated]]
    /\ ext_pc' = "truncated"
    /\ UNCHANGED <<val_vars, pipe_vars, ext_in, ext_rows, ext_counts, ext_packet,
                   input_data_manifest, prompt_record, ext_first>>

\* EIDs and relative times, then the packet with an empty hash field
\* (lines 479-684)
ExtShape ==
    /\ ext_pc = "truncated"
    /\ LET adm == ext_in.adm
           attach(s, prefix, candidates) ==
               _attach_eids_and_times(section_lists[s], prefix, parse_dt(adm.admittime),
                                      candidates, {"subject_id", "hadm_id"})
           services  == attach("services", <<"S","V","C">>, <<"transfertime">>)
           discharge == attach("discharge", s_DS, <<"charttime">>)
           labs      == attach("labs", s_LAB, <<"charttime", "storetime">>)
       IN  ext_packet' =
              [ids |-> [subject_id |-> adm.subject_id, hadm_id |-> adm.hadm_id],
               time_basis |-> [admittime |-> adm.admittime, dischtime |-> adm.dischtime],
               patient |-> [eid |-> eid_string(s_PT, 1)],
               admission |-> [eid |-> eid_string(s_ADM, 1)],
               location_timeline |-> [services |-> services],
               notes |-> [discharge |-> discharge,
                          radiology |-> attach("radiology", <<"R","A","D">>, <<"charttime">>)],
               labs |-> labs,
               orders |-> [poe |-> attach("poe", <<"P","O","E">>, <<"ordertime">>),
                           pharmacy |-> attach("pharmacy", <<"P","H","A","R","M">>,
                                               <<"entertime", "starttime">>),
                           emar |-> attach("emar", <<"E","M","A","R">>,
                                           <<"charttime", "scheduletime", "storetime">>)],
               packet_stats |-> [row_counts |-> [services |-> Len(services),
                                                 labevents |-> Len(labs),
                                                 discharge |-> Len(discharge),
                                                 radiology |-> Len(section_lists["radiology"])],
                                 sha256_canonical_packet |-> NoHash]]
    /\ ext_pc' = "shaped"
    /\ UNCHANGED <<val_vars, pipe_vars, ext_in, ext_rows, ext_counts, section_lists,
                   truncation_stats, input_data_manifest, prompt_record, ext_first>>

\* lines 686-688
ExtHash ==
    /\ ext_pc = "shaped"
    /\ ext_packet' = [ext_packet EXCEPT !.packet_stats.sha256_canonical_packet =
                                            sha256_hex(canonical_json_dumps(ext_packet))]
    /\ ext_pc' = "hashed"
    /\ UNCHANGED <<val_vars, pipe_vars, ext_in, ext_rows, ext_counts, section_lists,
                   truncation_stats, input_data_manifest, prompt_record, ext_first>>

\* lines 690-729; the hash written is the local packet_hash of line 687; the
\* result returned holds the packet, the manifest and the unlinked
\* radiology notes of the query
ExtManifest ==
    /\ ext_pc = "hashed"
    /\ input_data_manifest' =
          [ids |-> ext_packet.ids,
           policy_capture_counts |->
               [labs |-> ext_counts.labs, emar |-> ext_counts.emar,
                radiology |->
                    [linked_hadm |-> Len(ext_packet.notes.radiology),
                     unlinked_hadm_excluded |-> Len(ext_rows.unlinked_radiology_notes)]],
           truncation |-> [applied |-> \E s \in EXT_SECTIONS : truncation_stats[s].truncated,
                           per_section_limits |-> ext_in.per_section_row_caps,
                           per_section_counts |-> truncation_stats],
           hashes |-> [packet_sha256 |-> ext_packet.packet_stats.sha256_canonical_packet]]
    /\ ext_pc' = "returned"
    /\ UNCHANGED <<val_vars, pipe_vars, ext_in, ext_rows, ext_counts, section_lists,
                   truncation_stats, ext_packet, prompt_record, ext_first>>

\* pipeline.py lines 161-176: the prompt record takes the hash out of the packet
ExtPromptRecord ==
    /\ ext_pc = "returned"
    /\ prompt_record' =
          [ids |-> ext_packet.ids,
           hashes |-> [packet_sha256 |-> ext_packet.packet_stats.sha256_canonical_packet]]
    /\ ext_pc' = "recorded"
    /\ UNCHANGED <<val_vars, pipe_vars, ext_in, ext_rows, ext_counts, section_lists,
                   truncation_stats, ext_packet, input_data_manifest, ext_first>>

\* a second call of extract_admission_packet on the same rows and
\* configuration; the packet of the first call is kept for comparison
ExtRepeat ==
    /\ ext_pc = "recorded"
    /\ ext_first = JNull
    /\ ext_first' = ext_packet
    /\ ext_pc' = "start"
    /\ UNCHANGED <<val_vars, pipe_vars, ext_in, ext_rows, ext_counts, section_lists,
                   truncation_stats, ext_packet, input_data_manifest, prompt_record>>

ExtNext ==
    \/ ExtQuery
    \/ ExtTruncate
    \/ ExtShape
    \/ ExtHash
    \/ ExtManifest
    \/ ExtPromptRecord
    \/ ExtRepeat

SpecExtract == ExtInit /\ [][ExtNext]_vars

(***************************************************************************)
(* Properties                                                              *)
(***************************************************************************)
Max1(n) == IF n > 1 THEN n ELSE 1


InGeneration == pc \in {"transport", "validate"}

\* _generate_validated_response has just raised into the handler: extraction
\* raises ValueError and the writers OSError, everything else comes from it
GenerationRaised == pc = "handler" /\ exc.exc \notin {"ValueError", "OSError"}

CallsInRound(r) == {i \in 1..Len(calls) : calls[i].round = r}

\* C1 as claimed: for one admission the number of model calls never exceeds
\* the configured retry_limit (stated for a retry_limit of at least 1).
C1_CallsWithinRetryLimit == retry_limit >= 1 => Len(calls) <= retry_limit

\* C1 as amended: the retry limit bounds the validation rounds and, separately,
\* the transport attempts of each round, so the calls of one admission never
\* exceed max(1, retry_limit) squared.
C1_CallsWithinSquare ==
    /\ \A i \in 1..Len(calls) : calls[i].round \in 1..Max1(retry_limit)
    /\ \A r \in 1..Max1(retry_limit) : Cardinality(CallsInRound(r)) <= Max1(retry_limit)
    /\ Len(calls) <= Max1(retry_limit) * Max1(retry_limit)

C1_Witness ==
    /\ retry_limit >= 2
    /\ Len(calls) = retry_limit * retry_limit
    /\ Cardinality(CallsInRound(1)) = retry_limit

RECURSIVE OccursInOrder(_, _, _)
\* the messages of errs occur in msg from position from on, one after another
OccursInOrder(msg, errs, from) ==
    IF errs = <<>> THEN TRUE
    ELSE \E q \in from..(Len(msg) - Len(Head(errs)) + 1) :
            /\ SubSeq(msg, q, q + Len(Head(errs)) - 1) = Head(errs)
            /\ OccursInOrder(msg, Tail(errs), q + Len(Head(errs)))

RoundErrors == [i \in 1..Len(verdicts) |-> verdicts[i].res.msg]

CitedEids(data) ==
    LET sites == citation_sites(data)
    IN  UNION {{sites[i].eids[k].v : k \in 1..Len(sites[i].eids)} : i \in 1..Len(sites)}

ReturnedIsValidated ==
    /\ verdicts # <<>>
    /\ Last(verdicts).res.exc = "none"
    /\ isinstance_dict(parsed)
    /\ validate_output_schema(parsed).exc = "none"
    /\ strict_validation => CitedEids(parsed) \subseteq flatten_eids(extraction_packet)

\* C2 as claimed: _generate_validated_response ends by returning a validated
\* response or by raising the generation failure that carries the validation
\* error of every failed round, in round order.
C2_ReturnsOrGenerationFailed ==
    /\ Len(verdicts) <= Max1(retry_limit)
    /\ pc = "persist" => ReturnedIsValidated
    /\ GenerationRaised =>
        /\ exc.exc = "ValidationError"
        /\ OccursInOrder(exc.msg, RoundErrors, 1)

GenerationMeasure ==
    (schema_attempt * (Max1(retry_limit) + 1) + attempt_idx) * 2
        + (IF pc = "validate" THEN 1 ELSE 0)

C2_Outcomes ==
    /\ Len(verdicts) <= Max1(retry_limit)
    /\ InGeneration =>
        /\ schema_attempt \in 1..Max1(retry_limit)
        /\ attempt_idx \in 1..Max1(retry_limit)
    /\ pc = "persist" => ReturnedIsValidated
    /\ GenerationRaised =>
        CASE exc.exc = "ValidationError" ->
                /\ Len(verdicts) = Max1(retry_limit)
                /\ \A i \in 1..Len(verdicts) : verdicts[i].res.exc = "ValidationError"
                /\ OccursInOrder(exc.msg, RoundErrors, 1)
          [] exc.exc = "RuntimeError" ->
                /\ Len(calls) >= Max1(retry_limit)
                /\ \A i \in (Len(calls) - Max1(retry_limit) + 1)..Len(calls) :
                        calls[i].status = "error" /\ calls[i].round = Len(verdicts) + 1
          [] OTHER ->
                /\ verdicts # <<>>
                /\ Last(verdicts).res = exc

\* every step inside the two loops moves strictly forward
C2_Progress == (InGeneration /\ InGeneration') => GenerationMeasure' > GenerationMeasure

\* C2 as amended: at most max(1, retry_limit) rounds of at most
\* max(1, retry_limit) attempts are run, every step advancing; the function
\* then returns a validated response, or raises the validation failure that
\* carries the error of every round in round order, or lets the first
\* non-validation error of a round (the transport error of
\* generate_with_retries, or an error of another type raised while
\* validating) propagate, after which no round is run.
C2_Terminates == []C2_Outcomes /\ [][C2_Progress]_vars

C2_Witness ==
    /\ GenerationRaised
    /\ exc.exc = "ValidationError"
    /\ Len(verdicts) >= 2
    /\ verdicts[1].res.msg # verdicts[2].res.msg

\* the responses of the model that parse as a JSON object and pass the schema
SchemaValidResponses ==
    {parse_json_response(t).data :
        t \in {t \in LLMTexts : /\ parse_json_response(t).res.exc = "none"
                                /\ validate_output_schema(parse_json_response(t).data).exc = "none"}}

\* what those responses leave behind when, after alias normalisation, they
\* cite only EIDs of the packet
AcceptedData(pkt) ==
    {d \in {_normalize_output_eid_aliases_in_place(r, _build_eid_alias_map(pkt)) :
                r \in SchemaValidResponses} :
        CitedEids(d) \subseteq flatten_eids(pkt)}

\* per subject and admission, what may be persisted: the cache is prepared
\* for the subject of the run before its first admission is extracted
AcceptedTable ==
    UNION {{[subject_id |-> sh[1], hadm_id |-> sh[2], data |-> d] :
                d \in AcceptedData(extract_admission_packet(sh[1], sh[1], sh[2]).packet)} :
            sh \in {x \in SUBJECTS \X HADM_IDS :
                        extract_admission_packet(x[1], x[1], x[2]).res.exc = "none"}}

AcceptedFor(subject_id, hadm_id) ==
    {e.data : e \in {x \in AcceptedTable : x.subject_id = subject_id /\ x.hadm_id = hadm_id}}

\* C3: with strict validation on, every persisted conversation, summary and
\* rollup row was taken from a response that parsed as a JSON object, passed
\* the schema and cites only EIDs of that admission's packet; a rejected
\* response leaves nothing in any of them.
C3_PersistedOnlyValidated ==
    strict_validation =>
        /\ \A h \in HADM_IDS :
            /\ disk_conversation[h] # JNull =>
                    \E d \in AcceptedFor(subject, h) : disk_conversation[h] = d.v.conversation
            /\ disk_summary[h] # JNull =>
                    \E d \in AcceptedFor(subject, h) :
                        disk_summary[h] = d.v.end_of_admission_summary
        /\ \A i \in 1..Len(disk_details) :
                \E d \in AcceptedFor(subject, disk_details[i].hadm_id) :
                    \E k \in 1..Len(d.v.conversation.v) :
                        disk_details[i].row = d.v.conversation.v[k]
        /\ \A i \in 1..Len(disk_only) :
                \E d \in AcceptedFor(subject, disk_only[i].hadm_id) :
                    disk_only[i].conversation = _speaker_text_only(d.v.conversation)

C3_Witness ==
    /\ strict_validation
    /\ pc = "complete"
    /\ Len(verdicts) >= 2
    /\ verdicts[1].res.exc = "ValidationError"
    /\ disk_summary[admissions[adm_i].hadm_id] # JNull
    /\ disk_details # <<>>
    /\ disk_only # <<>>

\* C8: every call of a repair round gets the system message of the first
\* call and a user message made of the first call's user message followed by
\* the repair directive, and every round is validated against one packet.
C8_RepairKeepsPrompt ==
    /\ \A i \in 1..Len(calls) :
        /\ calls[i].system = calls[1].system
        /\ calls[i].round = 1 => calls[i].user = calls[1].user
        /\ calls[i].round > 1 =>
            /\ Len(calls[i].user) = Len(calls[1].user) + 1
            /\ SubSeq(calls[i].user, 1, Len(calls[1].user)) = calls[1].user
            /\ Last(calls[i].user) = REPAIR_BLOCK
    /\ \A i \in 1..Len(verdicts) : verdicts[i].packet = verdicts[1].packet
    /\ calls # <<>> => calls[1].round = 1 /\ calls[1].system = SYSTEM_MESSAGE

C8_Witness ==
    /\ retry_limit >= 2
    /\ Len(verdicts) >= 2
    /\ \E i \in 1..Len(calls) : calls[i].round = 2 /\ calls[i].status = "ok"

StatusOf(manifest, i) == IF i <= Len(manifest) THEN manifest[i].status ELSE "absent"

BeforeCompletion ==
    pc \in {"extract", "write_inputs", "transport", "validate", "persist", "complete"}

\* the pending entry of the admission at hand is on disk from before its
\* extraction until its status is set
PendingPersistedFirst ==
    BeforeCompletion =>
        /\ disk_manifest = patient_manifest
        /\ Last(disk_manifest) = PendingEntry(admissions[adm_i].hadm_id)

\* C9 as claimed: the pending entry is on disk before extraction, an entry of
\* the manifest changes status only from pending to completed or from pending
\* to error, and a completed or error entry never changes again.
C9_StatusOnlyLeavesPending ==
    /\ []PendingPersistedFirst
    /\ [][\A i \in 1..Len(patient_manifest) :
            StatusOf(patient_manifest', i) # patient_manifest[i].status =>
                /\ patient_manifest[i].status = "pending"
                /\ StatusOf(patient_manifest', i) \in {"completed", "error"}]_vars

PersistedStep ==
    \A i \in 1..Len(disk_manifest) :
        /\ StatusOf(disk_manifest', i) # disk_manifest[i].status =>
            /\ disk_manifest[i].status = "pending"
            /\ disk_manifest'[i] = patient_manifest'[i]
            /\ StatusOf(disk_manifest', i) \in {"completed", "error"}
        /\ disk_manifest[i].status \in {"completed", "error"} => disk_manifest'[i] = disk_manifest[i]

InMemoryStep ==
    \A i \in 1..Len(patient_manifest) :
        StatusOf(patient_manifest', i) # patient_manifest[i].status =>
            \/ /\ patient_manifest[i].status = "pending"
               /\ StatusOf(patient_manifest', i) \in {"completed", "error"}
            \/ /\ patient_manifest[i].status = "completed"
               /\ StatusOf(patient_manifest', i) = "error"
               /\ i = Len(patient_manifest)
               /\ disk_manifest[i].status = "pending"
               /\ exc = OSError("patient_manifest.json")

\* C9 as amended: the pending entry is on disk before extraction; an entry of
\* the manifest on disk changes only from pending to completed or to error,
\* taking the value of the entry in memory, and never changes afterwards; the
\* entry in memory does the same except that a completed entry whose manifest
\* write failed, and which was therefore never on disk as completed, is set
\* to error by the except clause.
C9_PersistedStatusOnlyLeavesPending ==
    /\ []PendingPersistedFirst
    /\ [][PersistedStep /\ InMemoryStep]_vars

C9_Witness ==
    /\ pc = "raised"
    /\ Len(disk_manifest) = 2
    /\ disk_manifest[1].status = "completed"
    /\ disk_manifest[2].status = "error"
    /\ patient_manifest[2].error = OSError("patient_manifest.json").msg

HandlerRan == pc = "raised" /\ patient_manifest # <<>> /\ Last(patient_manifest).status = "error"

PersistedShowsError(msg) ==
    /\ Len(disk_manifest) = Len(patient_manifest)
    /\ Last(disk_manifest).status = "error"
    /\ Last(disk_manifest).error = msg

\* C10 as claimed: when the processing of an admission has failed and the
\* error leaves generate_patient_sample, the manifest on disk shows the entry
\* with status error and the message of the error.
C10_ErrorPersistedWhenRaised == HandlerRan => PersistedShowsError(Last(patient_manifest).error)

\* C10 as amended: when the except clause has run and an error leaves
\* generate_patient_sample, either the manifest on disk shows the entry with
\* status error and the message of the error that leaves, or the manifest
\* write of the except clause itself failed: then the error that leaves is
\* that of the write and the entry on disk is still pending.
C10_ErrorPersistedUnlessWriteFails ==
    HandlerRan =>
        \/ PersistedShowsError(exc.msg)
        \/ /\ exc = OSError("patient_manifest.json")
           /\ Len(disk_manifest) = Len(patient_manifest)
           /\ Last(disk_manifest).status = "pending"

C10_Witness ==
    /\ HandlerRan
    /\ exc.exc = "ValidationError"
    /\ PersistedShowsError(exc.msg)
    /\ Len(verdicts) >= 2

SchemaRan == val_pc \in {"validated", "raised_schema"}

SchemaAccepted == val_pc \in {"validated", "done", "raised_evidence"}

EvidenceRan == val_pc \in {"done", "raised_evidence"}

IsRoleTag(x) == x.t = "str" /\ x.v \in ALLOWED_SPEAKERS

WrongKeySet(x, keys) == x.t # "dict" \/ DOMAIN x.v # keys

\* the violations of the turns of a conversation named by C4
TurnViolates(turn) ==
    \/ WrongKeySet(turn, TURN_KEYS)
    \/ ~IsRoleTag(turn.v.speaker)
    \/ turn.v.text.t # "str"
    \/ turn.v.relative_time.t # "str"
    \/ turn.v.evidence_eids.t # "list"
    \/ \E k \in 1..Len(turn.v.evidence_eids.v) : turn.v.evidence_eids.v[k].t # "str"

\* the violations of the output schema named by C4, for a parsed object
ViolatesSchema(data) ==
    \/ DOMAIN data.v # TOP_KEYS
    \/ data.v.conversation.t # "list"
    \/ data.v.conversation.v = <<>>
    \/ \E i \in 1..Len(data.v.conversation.v) : TurnViolates(data.v.conversation.v[i])
    \/ WrongKeySet(data.v.end_of_admission_summary, SUMMARY_KEYS)
    \/ WrongKeySet(data.v.end_of_admission_summary.v.disposition,
                   {"discharge_location", "supporting_eids"})

\* C4: every response that violates the output schema makes
\* validate_output_schema fail with a ValidationError and with no exception of
\* another type.
C4_ViolationsRaiseValidationError ==
    (SchemaRan /\ ViolatesSchema(val_data)) =>
        /\ val_pc = "raised_schema"
        /\ val_exc.exc = "ValidationError"

Conversation(data) == data.v.conversation.v

\* C6: validate_output_schema accepts a conversation only if the turn at every
\* 1-based position i has a turn_id that is an integer equal to i.
C6_AcceptedTurnIdsAreSequentialIntegers ==
    SchemaAccepted =>
        \A i \in 1..Len(Conversation(val_data)) :
            /\ Conversation(val_data)[i].v.turn_id.t = "int"
            /\ Conversation(val_data)[i].v.turn_id.v = i

\* positions <<site, k>> of the citations that are no EID of the packet
Offending(data, pkt) ==
    LET sites == citation_sites(data)
    IN  {c \in UNION {{<<i, k>> : k \in 1..Len(sites[i].eids)} : i \in 1..Len(sites)} :
            sites[c[1]].eids[c[2]].v \notin flatten_eids(pkt)}

IssuesOfSite(msg, site) ==
    LET here(part) == part.where = site.where /\ part.idx = site.idx
        parts == SelectSeq(msg, here)
    IN  [j \in 1..Len(parts) |-> parts[j].eid]

OffendingOfSite(site, pkt) ==
    LET unknown(e) == e.v \notin flatten_eids(pkt)
        bad == SelectSeq(site.eids, unknown)
    IN  [j \in 1..Len(bad) |-> bad[j].v]

\* C5: with strict set, enforce_evidence_references raises exactly when some
\* citation of the alias-normalised response is no EID of the packet, and the
\* error then lists one issue for each such citation, site by site.
C5_StrictRaisesIffUnknownCitation ==
    (EvidenceRan /\ val_strict) =>
        /\ val_pc = "raised_evidence" <=> Offending(val_data, val_packet) # {}
        /\ val_pc = "raised_evidence" =>
            /\ val_exc.exc = "ValidationError"
            /\ Len(val_exc.msg) = Cardinality(Offending(val_data, val_packet))
            /\ \A i \in 1..Len(citation_sites(val_data)) :
                    IssuesOfSite(val_exc.msg, citation_sites(val_data)[i])
                        = OffendingOfSite(citation_sites(val_data)[i], val_packet)

C5_Witness ==
    /\ val_strict
    /\ val_pc = "raised_evidence"
    /\ Len(val_exc.msg) >= 3
    /\ \E i \in 1..Len(citation_sites(val_data)) :
            Len(OffendingOfSite(citation_sites(val_data)[i], val_packet)) >= 2

CaseEq(a, b) == Len(a) = Len(b) /\ \A k \in 1..Len(a) : lower_char(a[k]) = lower_char(b[k])

IsBlank(a) == \A k \in 1..Len(a) : a[k] \in WHITESPACE

\* a equals b case-insensitively once the whitespace around a is removed
PaddedCaseEq(a, b) ==
    \E lead \in 0..Len(a), trail \in 0..Len(a) :
        /\ lead + Len(b) + trail = Len(a)
        /\ IsBlank(SubSeq(a, 1, lead))
        /\ IsBlank(SubSeq(a, Len(a) - trail + 1, Len(a)))
        /\ CaseEq(SubSeq(a, lead + 1, Len(a) - trail), b)

PatientAliases == {s_patient, s_pt}

AdmissionAliases == {s_admission, s_adm}

\* the response as parsed, before enforce_evidence_references rewrote it
CitedBefore == citation_sites(parse_json_response(val_text).data)

CitedAfter == citation_sites(val_data)

SameShape ==
    /\ Len(CitedAfter) = Len(CitedBefore)
    /\ \A i \in 1..Len(CitedBefore) :
        /\ CitedAfter[i].where = CitedBefore[i].where
        /\ CitedAfter[i].idx = CitedBefore[i].idx
        /\ Len(CitedAfter[i].eids) = Len(CitedBefore[i].eids)

\* every citation is rewritten as its spelling demands, Matches(a, b) saying
\* when the citation a counts as the alias b
Rewritten(Matches(_, _)) ==
    \A i \in 1..Len(CitedBefore) : \A k \in 1..Len(CitedBefore[i].eids) :
        LET before == CitedBefore[i].eids[k].v
            after  == CitedAfter[i].eids[k].v
        IN  IF \E b \in PatientAliases : Matches(before, b)
            THEN after = val_packet.patient.eid
            ELSE IF \E b \in AdmissionAliases : Matches(before, b)
            THEN after = val_packet.admission.eid
            ELSE after = before

\* C7 as claimed: a citation equal to 'patient' or 'pt', or to 'admission' or
\* 'adm', case-insensitively is replaced in place by the patient or the
\* admission EID of the packet, and every other citation is left unchanged in
\* its position.
C7_OnlyAliasesRewritten == EvidenceRan => (SameShape /\ Rewritten(CaseEq))

\* C7 as amended: the comparison with the four alias words ignores case and
\* the whitespace around the citation, so ' pt ' is replaced as 'Pt' is; a
\* citation that is none of the four words after that is left unchanged in
\* its position, and nothing but the citation lists changes.
C7_PaddedAliasesRewritten ==
    EvidenceRan =>
        /\ SameShape
        /\ Rewritten(PaddedCaseEq)
        /\ _speaker_text_only(val_data.v.conversation)
                = _speaker_text_only(parse_json_response(val_text).data.v.conversation)

C7_Witness ==
    /\ val_strict
    /\ val_pc = "done"
    /\ Len(CitedBefore[1].eids) >= 2
    /\ CitedBefore[1].eids[2].v = <<"P", "t">>
    /\ CitedAfter[1].eids[2].v = PT1
    /\ CitedAfter[1].eids[1].v = CitedBefore[1].eids[1].v

(***************************************************************************)
(* The admission loop after a failure (pipeline.py lines 132-233)          *)
(***************************************************************************)
ErrorEntries(manifest) == {i \in 1..Len(manifest) : manifest[i].status = "error"}

\* the failed entry is the last one, the file has as many entries as the list
\* in memory, and every entry before the failed one is completed in the file
FailedEntryIsLast ==
    \A i \in ErrorEntries(patient_manifest) \cup ErrorEntries(disk_manifest) :
        /\ i = Len(patient_manifest)
        /\ patient_manifest[i].hadm_id = admissions[adm_i].hadm_id
        /\ Len(disk_manifest) = Len(patient_manifest)
        /\ \A j \in 1..(i - 1) : disk_manifest[j].status = "completed"
        /\ pc = "raised"

\* once an entry has status error no step extracts, renders, calls the
\* model, validates or appends to the manifest
NothingAfterError ==
    ErrorEntries(patient_manifest) # {} =>
        /\ Len(patient_manifest') = Len(patient_manifest)
        /\ adm_i' = adm_i
        /\ extraction_packet' = extraction_packet
        /\ calls' = calls
        /\ verdicts' = verdicts
        /\ disk_files' = disk_files

\* C11: after an admission ends in status error no later admission of the
\* patient is extracted, sent to the model or added to the manifest; in the
\* persisted manifest every entry before the failed one is completed and the
\* failed entry is the last one.
C11_FailureEndsPatientRun == []FailedEntryIsLast /\ [][NothingAfterError]_vars

\* the second of three listed admissions failed in validation: the first is
\* completed on disk, the third was never begun
C11_Witness ==
    /\ pc = "raised"
    /\ Len(admissions) >= 3
    /\ adm_i = 2
    /\ Len(disk_manifest) = 2
    /\ disk_manifest[1].status = "completed"
    /\ disk_manifest[2].status = "error"
    /\ exc.exc = "ValidationError"

(***************************************************************************)
(* The previous-summary text (pipeline.py lines 129, 160, 219)             *)
(***************************************************************************)
\* the text the prompt of the i-th processed admission is to carry: nothing
\* for the first, else the serialized summary stored for the admission before
PreviousSummaryOf(i) ==
    IF i = 1 THEN EmptyText
    ELSE [kind |-> "json", val |-> disk_summary[admissions[i - 1].hadm_id]]

PromptRendered == pc \in {"transport", "validate", "persist", "complete"}

PromptCarriesPreviousSummary ==
    /\ PromptRendered =>
        /\ user_message[2] = [seg |-> "prev_summary", val |-> PreviousSummaryOf(adm_i)]
        /\ adm_i > 1 => disk_summary[admissions[adm_i - 1].hadm_id] # JNull
    /\ pc \in {"transport", "validate", "persist", "complete", "handler", "raised"} =>
        \A k \in 1..Len(calls) :
            calls[k].user[2] = [seg |-> "prev_summary", val |-> PreviousSummaryOf(adm_i)]

\* the text is empty when a run starts and is replaced only by the step
\* that completes an admission, with the summary that admission validated
PreviousSummarySteps ==
    /\ pc = "idle" => prev_summary_text' = EmptyText
    /\ prev_summary_text' # prev_summary_text =>
        /\ pc = "complete"
        /\ prev_summary_text' = [kind |-> "json", val |-> parsed.v.end_of_admission_summary]
        /\ parsed.v.end_of_admission_summary = disk_summary[admissions[adm_i].hadm_id]

\* C12: within one run the previous-summary text in the prompt of the first
\* processed admission is empty, and for every later admission it is the
\* canonical JSON of the validated end_of_admission_summary of the admission
\* processed immediately before; a run starts from the empty text.
C12_PreviousSummaryThreaded == []PromptCarriesPreviousSummary /\ [][PreviousSummarySteps]_vars

\* the model is called for a second admission with the first one's summary
C12_Witness ==
    /\ adm_i = 2
    /\ pc = "validate"
    /\ calls # <<>>
    /\ calls[1].user[2].val.kind = "json"
    /\ calls[1].user[2].val.val = disk_summary[admissions[1].hadm_id]
    /\ disk_summary[admissions[1].hadm_id] # JNull

(***************************************************************************)
(* Extraction failures and the repair loop (extractor.py lines 65-73 and   *)
(* 347-350, pipeline.py lines 154-182 and 265-301)                         *)
(***************************************************************************)
\* the three refusals of extract_admission_packet, read off the source tables
ExtractionFails(subject_id, hadm_id) ==
    LET rows == {a \in hosp_admissions : a.subject_id = subject_id /\ a.hadm_id = hadm_id}
    IN  \/ rows = {}
        \/ \E a \in rows : a.admittime = NULL
        \/ /\ require_discharge_note
           /\ ~\E n \in note_discharge : n.subject_id = subject_id /\ n.hadm_id = hadm_id

AdmissionBegun ==
    /\ adm_i \in 1..Len(admissions)
    /\ pc \in {"extract", "write_inputs", "transport", "validate", "persist", "complete",
               "handler", "raised"}

\* nothing of an admission whose extraction fails reaches the model, the
\* validator or the disk
FailedExtractionLeavesNothing ==
    /\ AdmissionBegun /\ ExtractionFails(subject, admissions[adm_i].hadm_id) =>
        /\ pc \in {"extract", "handler", "raised"}
        /\ calls = <<>>
        /\ verdicts = <<>>
        /\ \A f \in disk_files : f[1] # admissions[adm_i].hadm_id
        /\ disk_conversation[admissions[adm_i].hadm_id] = JNull
        /\ disk_summary[admissions[adm_i].hadm_id] = JNull
        /\ pc = "handler" => extraction_packet = JNull /\ exc.exc = "ValueError"
        /\ Last(patient_manifest).status = "error" => extraction_packet = JNull
    /\ extract_admission_packet(NULL, 1, 99) =
            [res |-> ValueError(99, "Admission not found"), packet |-> JNull]

\* every round of the repair loop is validated against the packet extracted
\* once for the admission
RoundsShareThePacket ==
    pc \in {"transport", "validate", "persist", "complete"} =>
        /\ extraction_packet # JNull
        /\ \A i \in 1..Len(verdicts) : verdicts[i].packet = extraction_packet

\* the step that extracts a failing admission goes to the except clause
\* with a ValueError, and only the extraction step ever sets the packet
ExtractionSteps ==
    /\ pc = "extract" /\ ExtractionFails(subject, admissions[adm_i].hadm_id) =>
        /\ pc' = "handler"
        /\ exc'.exc = "ValueError"
        /\ extraction_packet' = JNull
    /\ extraction_packet' # extraction_packet => pc = "extract"

\* C13: when extraction fails (no admission row, no admittime, or no
\* discharge note while one is required) no packet is returned or persisted,
\* no model call is made and no repair round is started; a validation failure
\* never causes a second extraction, every repair round uses the same packet.
C13_ExtractionAndRepairApart ==
    /\ []FailedExtractionLeavesNothing
    /\ []RoundsShareThePacket
    /\ [][ExtractionSteps]_vars

\* an admission without discharge note was listed, begun and refused
C13_Witness ==
    /\ pc = "raised"
    /\ adm_i \in 1..Len(admissions)
    /\ admissions[adm_i].hadm_id = 40
    /\ exc = ValueError(40, "has no discharge note")
    /\ Last(disk_manifest).status = "error"
    /\ calls = <<>>

\* a second round is validated against the packet of the first
C13_WitnessRepair ==
    /\ pc = "validate"
    /\ Len(verdicts) >= 1
    /\ verdicts[1].res.exc = "ValidationError"
    /\ verdicts[1].packet = extraction_packet

(***************************************************************************)
(* The extractor (SpecExtract)                                             *)
(***************************************************************************)
\* the record lists of a packet by section name
PacketSections(pkt) ==
    [services |-> pkt.location_timeline.services, discharge |-> pkt.notes.discharge,
     radiology |-> pkt.notes.radiology, labs |-> pkt.labs, poe |-> pkt.orders.poe, pharmacy |-> pkt.orders.pharmacy,
     emar |-> pkt.orders.emar]

Truncated == ext_pc \in {"truncated", "shaped", "hashed", "returned", "recorded"}

Shaped == ext_pc \in {"shaped", "hashed", "returned", "recorded"}

Min(a, b) == IF a <= b THEN a ELSE b

\* the record of the packet made of a source row: the row without its keys
SameRow(record, row) ==
    \A k \in (DOMAIN row) \ {"subject_id", "hadm_id"} : record[k] = row[k]

\* section s holds the first n rows of the sequence that entered truncation,
\* in the list after truncation and in the packet
RetainsFirst(s, n) ==
    /\ section_lists[s] = SubSeq(ext_rows[s], 1, n)
    /\ truncation_stats[s].retained = n
    /\ Shaped =>
        /\ Len(PacketSections(ext_packet)[s]) = n
        /\ \A i \in 1..n : SameRow(PacketSections(ext_packet)[s][i], ext_rows[s][i])

\* C14 as claimed: for every section and every cap C the retained rows are
\* the first min(seen, C) rows of the sequence before truncation, retained
\* is min(seen, C) and truncated holds exactly when seen > C; with cap None
\* all rows are retained and truncated is false.
C14_TruncationLaw ==
    Truncated =>
        \A s \in EXT_SECTIONS :
            LET cap  == ext_in.per_section_row_caps[s]
                seen == Len(ext_rows[s])
            IN  /\ truncation_stats[s].seen = seen
                /\ truncation_stats[s].cap = cap
                /\ IF cap = NULL
                   THEN RetainsFirst(s, seen) /\ ~truncation_stats[s].truncated
                   ELSE /\ RetainsFirst(s, Min(seen, cap))
                        /\ truncation_stats[s].truncated <=> seen > cap

\* C14 amended: the law holds for every cap C >= 0; a negative cap is
\* treated as None: all rows are retained and truncated is false.
C14_TruncationLawNonNegative ==
    Truncated =>
        \A s \in EXT_SECTIONS :
            LET cap  == ext_in.per_section_row_caps[s]
                seen == Len(ext_rows[s])
            IN  /\ truncation_stats[s].seen = seen
                /\ truncation_stats[s].cap = cap
                /\ IF cap = NULL \/ cap < 0
                   THEN RetainsFirst(s, seen) /\ ~truncation_stats[s].truncated
                   ELSE /\ RetainsFirst(s, Min(seen, cap))
                        /\ truncation_stats[s].truncated <=> seen > cap
                /\ ext_pc \in {"returned", "recorded"} =>
                      input_data_manifest.truncation.per_section_counts = truncation_stats

\* two lab rows were seen and the cap of one kept the earlier of them
C14_Witness ==
    /\ ext_pc = "recorded"
    /\ ext_in.per_section_row_caps["labs"] = 1
    /\ truncation_stats["labs"] = [seen |-> 2, retained |-> 1, cap |-> 1, truncated |-> TRUE]
    /\ Len(ext_packet.labs) = 1
    /\ ext_packet.labs[1].labevent_id = ext_rows["labs"][1].labevent_id
    /\ ext_rows["labs"][1].charttime < ext_rows["labs"][2].charttime

SectionPrefix ==
    [services |-> <<"S","V","C">>, discharge |-> <<"D","S">>, radiology |-> <<"R","A","D">>,
     labs |-> <<"L","A","B">>,
     poe |-> <<"P","O","E">>, pharmacy |-> <<"P","H","A","R","M">>, emar |-> <<"E","M","A","R">>]

\* every eid found in the packet, and the number of records that carry one
PacketEids(pkt) ==
    {pkt.patient.eid, pkt.admission.eid}
    \cup UNION {{PacketSections(pkt)[s][i].eid : i \in 1..Len(PacketSections(pkt)[s])} :
                    s \in EXT_SECTIONS}

PacketRecordCount(pkt) ==
    2 + Len(pkt.location_timeline.services) + Len(pkt.notes.discharge)
      + Len(pkt.notes.radiology) + Len(pkt.labs)
      + Len(pkt.orders.poe) + Len(pkt.orders.pharmacy) + Len(pkt.orders.emar)

\* C15: in every packet no two records carry the same eid; the eids of a
\* section are PREFIX#000001 up to PREFIX#n in list order, n being the number
\* of rows the section retained after truncation; the patient carries
\* PT#000001 and the admission ADM#000001.
C15_EidsUniqueAndContiguous ==
    Shaped =>
        /\ Cardinality(PacketEids(ext_packet)) = PacketRecordCount(ext_packet)
        /\ ext_packet.patient.eid = <<"P","T","#","0","0","0","0","0","1">>
        /\ ext_packet.admission.eid = <<"A","D","M","#","0","0","0","0","0","1">>
        /\ \A s \in EXT_SECTIONS :
            LET records == PacketSections(ext_packet)[s]
            IN  /\ Len(records) = truncation_stats[s].retained
                /\ Len(records) = Len(section_lists[s])
                /\ \A i \in 1..Len(records) :
                      records[i].eid = SectionPrefix[s] \o <<"#","0","0","0","0","0">>
                                                        \o str_of_nat(i)

\* two lab records next to one record in each of three other sections
C15_Witness ==
    /\ ext_pc = "recorded"
    /\ Len(ext_packet.labs) = 2
    /\ ext_packet.labs[1].eid = <<"L","A","B","#","0","0","0","0","0","1">>
    /\ ext_packet.labs[2].eid = <<"L","A","B","#","0","0","0","0","0","2">>
    /\ ext_packet.orders.poe[1].eid = <<"P","O","E","#","0","0","0","0","0","1">>
    /\ ext_packet.notes.discharge[1].eid = <<"D","S","#","0","0","0","0","0","1">>
    /\ Cardinality(PacketEids(ext_packet)) = 7

SecondCallDone == ext_first # JNull /\ ext_pc \in {"hashed", "returned", "recorded"}

\* C16: two calls of extract_admission_packet with the same subject and
\* admission, the same source rows and the same configuration give identical
\* canonical packets, row order and EIDs included, also when source rows tie
\* on every ORDER BY key of their query.
C16_RepeatedExtractionIdentical ==
    SecondCallDone => canonical_json_dumps(ext_packet) = canonical_json_dumps(ext_first)

\* the source rows of the call are told apart by the ORDER BY keys of their
\* queries and by the keys of the merges
NoTies ==
    /\ \A a, b \in ext_in.services :
          a # b => <<a.transfertime, a.curr_service>> # <<b.transfertime, b.curr_service>>
    /\ \A a, b \in ext_in.emar : a # b => a.emar_id # b.emar_id
    /\ \A a, b \in ext_in.labevents : a # b => a.labevent_id # b.labevent_id

C16_IdenticalWithoutTies ==
    SecondCallDone /\ NoTies => canonical_json_dumps(ext_packet) = canonical_json_dumps(ext_first)

Hashed == ext_pc \in {"hashed", "returned", "recorded"}

\* the packet with its hash field emptied
Zeroed(pkt) == [pkt EXCEPT !.packet_stats.sha256_canonical_packet = NoHash]

\* the digest of the canonical JSON of the packet with the hash field emptied
DigestOfZeroed(pkt) == [kind |-> "sha256", val |-> [kind |-> "json", val |-> Zeroed(pkt)]]

HashesAgree ==
    /\ Hashed =>
          ext_packet.packet_stats.sha256_canonical_packet = DigestOfZeroed(ext_packet)
    /\ ext_pc \in {"returned", "recorded"} =>
          input_data_manifest.hashes.packet_sha256 = DigestOfZeroed(ext_packet)
    /\ ext_pc = "recorded" =>
          prompt_record.hashes.packet_sha256 = DigestOfZeroed(ext_packet)

\* the step that embeds the hash changes the hash field alone, and no later
\* step of the call changes the packet
PacketFrozenOnceHashed ==
    /\ ext_pc = "shaped" => Zeroed(ext_packet') = ext_packet
    /\ Hashed /\ ext_pc' # "start" => ext_packet' = ext_packet

\* C17: the embedded packet_stats.sha256_canonical_packet is the SHA-256 of
\* the canonical JSON of the same packet with the hash field emptied; the
\* packet_sha256 of the input data manifest and of the prompt record equal
\* the embedded value; nothing else in the packet changes after the hash is
\* embedded.
C17_HashOfZeroedPacket == []HashesAgree /\ [][PacketFrozenOnceHashed]_vars

\* a packet with records in four sections is hashed and recorded
C17_Witness ==
    /\ ext_pc = "recorded"
    /\ Len(ext_packet.orders.emar) = 2
    /\ ext_packet.packet_stats.sha256_canonical_packet.kind = "sha256"
    /\ prompt_record.hashes.packet_sha256 = input_data_manifest.hashes.packet_sha256
    /\ ext_packet.packet_stats.sha256_canonical_packet.val.val.orders.emar = ext_packet.orders.emar

Queried == ext_pc # "start" \/ ext_first # JNull

\* charttime in [admittime - pad, coalesce(dischtime, admittime) + pad], the
\* ends included; pad is in hours, the times are in seconds
InLabWindow(charttime) ==
    LET adm == ext_in.adm
        pad == 3600 * ext_in.proximal_padding_hours
    IN  /\ charttime # NULL
        /\ adm.admittime - pad <= charttime
        /\ charttime <= (IF adm.dischtime = NULL THEN adm.admittime ELSE adm.dischtime) + pad

NullKeyLabRows ==
    {r \in ext_in.labevents : r.subject_id = ext_in.adm.subject_id /\ r.hadm_id = NULL}

MergedLabs == {ext_rows["labs"][i] : i \in 1..Len(ext_rows["labs"])}

\* C18: with proximal lab capture on, a lab row of the subject with a null
\* admission key is among the labs of the admission if and only if its
\* charttime lies in the window (a row in the window whose labevent_id is
\* already there is represented by the row that came first), and every
\* labevent_id appears once in the merged list.
C18_ProximalLabsByWindow ==
    Queried /\ ext_in.proximal_lab_capture =>
        /\ \A r \in NullKeyLabRows :
            /\ r \in MergedLabs => InLabWindow(r.charttime)
            /\ InLabWindow(r.charttime) => \E m \in MergedLabs : m.labevent_id = r.labevent_id
            /\ (\A o \in ext_in.labevents : o.labevent_id = r.labevent_id => o = r) =>
                  (r \in MergedLabs <=> InLabWindow(r.charttime))
        /\ \A i, j \in 1..Len(ext_rows["labs"]) :
              ext_rows["labs"][i].labevent_id = ext_rows["labs"][j].labevent_id => i = j
        /\ \A m \in MergedLabs :
              /\ m \in ext_in.labevents
              /\ m.subject_id = ext_in.adm.subject_id
              /\ m.hadm_id \in {ext_in.adm.hadm_id, NULL}
        /\ \A r \in ext_in.labevents :
              r.subject_id = ext_in.adm.subject_id /\ r.hadm_id = ext_in.adm.hadm_id =>
                  \E m \in MergedLabs : m.labevent_id = r.labevent_id

\* with a padding of one hour the row charted sixty minutes after discharge
\* is taken and the row charted one minute later is not
C18_Witness ==
    /\ ext_pc = "queried"
    /\ ext_in.proximal_lab_capture
    /\ ext_in.proximal_padding_hours = 1
    /\ ext_in.adm.dischtime = 24000
    /\ {r.charttime : r \in ext_in.labevents} = {27600, 27660}
    /\ Len(ext_rows["labs"]) = 1
    /\ ext_rows["labs"][1].charttime = 27600
    /\ ext_rows["labs"][1].hadm_id = NULL

\* ascending by the keys, a null timestamp after every timestamp
SortedBy(seq, Key(_)) ==
    \A i, j \in 1..Len(seq) : i < j => ~lex_less(Key(seq[j]), Key(seq[i]))

LabOrderKey(r) == nulls_last(r.charttime) \o <<r.labevent_id>>

EmarOrderKey(r) == nulls_last(r.charttime) \o nulls_last(r.emar_seq)

EmarSorted == Queried => SortedBy(ext_rows["emar"], EmarOrderKey)

\* C19: the sequence of a linkage-resolved category that enters truncation
\* and EID assignment, after directly linked and policy-included rows are
\* merged, is sorted by event timestamp ascending, null timestamps last, ties
\* by the sequence or id field of the category ascending.
C19_MergedSequencesSorted ==
    Queried => SortedBy(ext_rows["labs"], LabOrderKey) /\ SortedBy(ext_rows["emar"], EmarOrderKey)

\* the rows the candidate query of the admission returns
EmarCandidates ==
    {r \in ext_in.emar : /\ r.subject_id = ext_in.adm.subject_id
                         /\ r.hadm_id \in {ext_in.adm.hadm_id, NULL}}

LinkedIds(table, id) ==
    {r[id] : r \in {x \in table : x.subject_id = ext_in.adm.subject_id
                                  /\ x.hadm_id = ext_in.adm.hadm_id}} \ {NULL}

\* the outcome the precedence rule gives a row
EmarOutcome(r) ==
    LET adm == ext_in.adm
    IN  CASE r.hadm_id = adm.hadm_id -> "direct_hadm"
          [] r.hadm_id # adm.hadm_id /\ r.hadm_id # NULL -> "excluded_null_hadm"
          [] r.hadm_id = NULL /\ r.pharmacy_id \in LinkedIds(ext_in.pharmacy, "pharmacy_id") ->
                "linked_via_pharmacy_id"
          [] /\ r.hadm_id = NULL
             /\ r.pharmacy_id \notin LinkedIds(ext_in.pharmacy, "pharmacy_id")
             /\ r.poe_id \in LinkedIds(ext_in.poe, "poe_id") -> "linked_via_poe_id"
          [] /\ r.hadm_id = NULL
             /\ r.pharmacy_id \notin LinkedIds(ext_in.pharmacy, "pharmacy_id")
             /\ r.poe_id \notin LinkedIds(ext_in.poe, "poe_id")
             /\ ext_in.emar_time_window_fallback
             /\ r.charttime # NULL /\ adm.dischtime # NULL
             /\ adm.admittime <= r.charttime /\ r.charttime <= adm.dischtime ->
                "linked_via_time_window"
          [] OTHER -> "excluded_null_hadm"

EMAR_OUTCOMES == {"direct_hadm", "linked_via_pharmacy_id", "linked_via_poe_id",
                  "linked_via_time_window", "excluded_null_hadm"}

\* a row of another admission is excluded whatever its references
OtherAdmissionExcluded ==
    LET row == [emar_id |-> 10, emar_seq |-> 1, subject_id |-> 1, hadm_id |-> 20,
                charttime |-> 12000, pharmacy_id |-> 5, poe_id |-> 7]
        out == _filter_emar_candidates(<<row>>, 10, 6000, 24000, <<[poe_id |-> 7]>>,
                                       <<[pharmacy_id |-> 5]>>, TRUE)
    IN  /\ out.selected = <<>>
        /\ out.counts.excluded_null_hadm = 1
        /\ \A o \in EMAR_OUTCOMES \ {"excluded_null_hadm"} : out.counts[o] = 0

\* C20: _filter_emar_candidates classifies every candidate row by strict
\* precedence: the target admission key gives direct_hadm; another non-null
\* key excludes; else a pharmacy reference to a pharmacy row of the
\* admission gives linked_via_pharmacy_id; else an order reference to an order
\* of the admission gives linked_via_poe_id; else, with the fallback on, a
\* charttime in the inclusive [admittime, dischtime] gives
\* linked_via_time_window; else the row is excluded.
C20_EmarPrecedence ==
    /\ OtherAdmissionExcluded
    /\ Queried =>
        /\ \A o \in EMAR_OUTCOMES :
              ext_counts.emar[o] = Cardinality({r \in EmarCandidates : EmarOutcome(r) = o})
        /\ \A i \in 1..Len(ext_rows["emar"]) :
              /\ ext_rows["emar"][i] \in EmarCandidates
              /\ EmarOutcome(ext_rows["emar"][i]) # "excluded_null_hadm"
        /\ \A r \in EmarCandidates :
              EmarOutcome(r) # "excluded_null_hadm" =>
                  \E i \in 1..Len(ext_rows["emar"]) : ext_rows["emar"][i].emar_id = r.emar_id

\* with the fallback on, a row with both references is counted as linked by
\* pharmacy, and a row without a match charted a minute after discharge is
\* excluded
C20_Witness ==
    /\ ext_pc = "queried"
    /\ ext_in.emar_time_window_fallback
    /\ ext_in.adm.dischtime = 24000
    /\ {r.charttime : r \in ext_in.emar} = {9000, 24060}
    /\ ext_counts.emar = [direct_hadm |-> 0, linked_via_pharmacy_id |-> 1,
                           linked_via_poe_id |-> 0, linked_via_time_window |-> 0,
                           excluded_null_hadm |-> 1]
    /\ Len(ext_rows["emar"]) = 1
    /\ ext_rows["emar"][1].poe_id = 7

\* the source fields of t_rel_min by section, in their order of preference
SectionTimeFields ==
    [services |-> <<"transfertime">>, discharge |-> <<"charttime">>,
     radiology |-> <<"charttime">>, labs |-> <<"charttime", "storetime">>, poe |-> <<"ordertime">>,
     pharmacy |-> <<"entertime", "starttime">>,
     emar |-> <<"charttime", "scheduletime", "storetime">>]

\* the candidate fields of a record that hold a timestamp, in order
TimestampsOf(record, s) ==
    SelectSeq(SectionTimeFields[s], LAMBDA f : f \in DOMAIN record /\ record[f] # NULL)

\* m is the whole number of minutes from start to event, rounded down
FloorMinutes(m, start, event) == 60 * m <= event - start /\ event - start < 60 * m + 60

\* C27: the relative-time field of every packet record is the whole number of
\* minutes from admittime to the first candidate field, in the order of
\* preference of its category, that holds a timestamp: the floor of the
\* difference, negative before admission; it is null exactly when no
\* candidate holds a timestamp.
C27_RelativeMinutesFloor ==
    Shaped =>
        \A s \in EXT_SECTIONS :
            \A i \in 1..Len(PacketSections(ext_packet)[s]) :
                LET record == PacketSections(ext_packet)[s][i]
                    stamps == TimestampsOf(record, s)
                IN  IF stamps = <<>> THEN record.t_rel_min = NULL
                    ELSE FloorMinutes(record.t_rel_min, ext_in.adm.admittime,
                                      record[stamps[1]])

\* a lab charted thirty seconds before admission stands at minus one minute,
\* and a lab without charttime stored 119 seconds after it at one minute
C27_Witness ==
    /\ ext_pc = "recorded"
    /\ Len(ext_packet.labs) = 2
    /\ ext_packet.labs[1].charttime = 5970 /\ ext_packet.labs[1].storetime = 6100
    /\ ext_packet.labs[1].t_rel_min = 0 - 1
    /\ ext_packet.labs[2].charttime = NULL /\ ext_packet.labs[2].storetime = 6119
    /\ ext_packet.labs[2].t_rel_min = 1

\* the radiology notes of the subject that carry no admission key
NullKeyRadiology ==
    {r \in ext_in.radiology : r.subject_id = ext_in.adm.subject_id /\ r.hadm_id = NULL}

\* C21: a radiology note with a null admission key is no record of
\* notes.radiology and carries no EID; with the side channel on, the unlinked
\* notes returned are exactly the null-key notes of the subject, each once,
\* and the radiology policy counts of the manifest count them.
C21_UnlinkedRadiologyKept ==
    /\ Shaped =>
          \A i \in 1..Len(ext_packet.notes.radiology) :
              /\ \A r \in NullKeyRadiology : ext_packet.notes.radiology[i].note_id # r.note_id
              /\ \E r \in ext_in.radiology :
                    /\ r.subject_id = ext_in.adm.subject_id /\ r.hadm_id = ext_in.adm.hadm_id
                    /\ SameRow(ext_packet.notes.radiology[i], r)
    /\ Queried =>
          \A i \in 1..Len(ext_rows.unlinked_radiology_notes) :
              "eid" \notin DOMAIN ext_rows.unlinked_radiology_notes[i]
    /\ Queried /\ ext_in.include_unlinked_radiology_in_sidecar =>
          /\ {ext_rows.unlinked_radiology_notes[i] :
                  i \in 1..Len(ext_rows.unlinked_radiology_notes)} = NullKeyRadiology
          /\ Len(ext_rows.unlinked_radiology_notes) = Cardinality(NullKeyRadiology)
    /\ ext_pc \in {"returned", "recorded"} /\ ext_in.include_unlinked_radiology_in_sidecar =>
          /\ input_data_manifest.policy_capture_counts.radiology.unlinked_hadm_excluded
                = Cardinality(NullKeyRadiology)
          /\ input_data_manifest.policy_capture_counts.radiology.linked_hadm
                = Len(ext_packet.notes.radiology)

\* one note of the admission and one note without admission key: the first
\* is RAD#000001 of the packet, the second is returned beside it and counted
C21_Witness ==
    /\ ext_pc = "recorded"
    /\ ext_in.include_unlinked_radiology_in_sidecar
    /\ {r.note_id : r \in ext_in.radiology} = {1, 2}
    /\ Len(ext_packet.notes.radiology) = 1
    /\ ext_packet.notes.radiology[1].note_id = 1
    /\ Len(ext_rows.unlinked_radiology_notes) = 1
    /\ ext_rows.unlinked_radiology_notes[1].note_id = 2
    /\ input_data_manifest.policy_capture_counts.radiology
          = [linked_hadm |-> 1, unlinked_hadm_excluded |-> 1]

\* the sum of the four counters of the rows taken
EmarIncluded ==
    ext_counts.emar.direct_hadm + ext_counts.emar.linked_via_pharmacy_id
    + ext_counts.emar.linked_via_poe_id + ext_counts.emar.linked_via_time_window

\* C29: _filter_emar_candidates counts every candidate row in exactly one of
\* its five counters, so the counters add up to the number of candidate
\* rows; the rows selected are at most the sum of the four inclusion
\* counters, and exactly that many when no emar_id repeats.
C29_EmarCountersPartition ==
    Queried =>
        /\ \A o \in EMAR_OUTCOMES : ext_counts.emar[o] \in 0..Cardinality(EmarCandidates)
        /\ EmarIncluded + ext_counts.emar.excluded_null_hadm = Cardinality(EmarCandidates)
        /\ Len(ext_rows["emar"]) <= EmarIncluded
        /\ (\A a, b \in EmarCandidates : a # b => a.emar_id # b.emar_id) =>
              Len(ext_rows["emar"]) = EmarIncluded

\* two candidates with one emar_id, both taken: two are counted and one row
\* is selected
C29_Witness ==
    /\ ext_pc = "queried"
    /\ Cardinality(EmarCandidates) = 2
    /\ {r.emar_id : r \in EmarCandidates} = {1}
    /\ EmarIncluded = 2
    /\ ext_counts.emar.direct_hadm = 1 /\ ext_counts.emar.linked_via_pharmacy_id = 1
    /\ Len(ext_rows["emar"]) = 1

\* two candidates with different ids, one taken and one excluded
C29_WitnessDistinct ==
    /\ ext_pc = "queried"
    /\ Cardinality(EmarCandidates) = 2
    /\ Cardinality({r.emar_id : r \in EmarCandidates}) = 2
    /\ EmarIncluded = 1 /\ ext_counts.emar.excluded_null_hadm = 1
    /\ Len(ext_rows["emar"]) = 1

\* _generate_validated_response has raised after its last validation round
ValidationExhausted == pc = "handler" /\ exc.exc = "ValidationError"

\* the log holds one entry for every model call of the admission, in the
\* order of the calls, numbered from 1
LogOfAllCalls(log) ==
    /\ Len(log) = Len(calls)
    /\ \A i \in 1..Len(log) : log[i].attempt_index = i /\ log[i].status = calls[i].status

\* C22: when _generate_validated_response raises after its last validation
\* round, the aggregated attempt log holds one entry for every transport
\* attempt of every round, its length is the number of attempts made and the
\* attempt_index values are 1..n in the order of the attempts; the same holds
\* for the attempt log of a result that is returned.
C22_AttemptLogComplete ==
    /\ ValidationExhausted =>
          /\ Len(verdicts) = Max1(retry_limit)
          /\ LogOfAllCalls(aggregated_attempts)
          /\ latest_result.attempts = aggregated_attempts
    /\ pc = "persist" => LogOfAllCalls(latest_result.attempts)

\* two rounds of two attempts each, the first attempt of each failing in
\* transport, end in exhaustion with a log of four entries
C22_Witness ==
    /\ ValidationExhausted
    /\ retry_limit = 2
    /\ [i \in 1..Len(calls) |-> <<calls[i].round, calls[i].status>>]
          = << <<1, "error">>, <<1, "ok">>, <<2, "error">>, <<2, "ok">> >>
    /\ [i \in 1..Len(aggregated_attempts) |-> aggregated_attempts[i].attempt_index]
          = <<1, 2, 3, 4>>

\* a round that validates without strict mode a response that parses and
\* passes the schema: enforcement does not raise, its issues are those strict
\* mode raises with, one for every unknown citation, and the round ends the
\* generation loop with the response
NonStrictRound ==
    pc = "validate" /\ ~strict_validation =>
        LET p == parse_json_response(latest_result.text)
        IN  p.res.exc = "none" /\ validate_output_schema(p.data).exc = "none" =>
              LET lax  == enforce_evidence_references(p.data, extraction_packet, FALSE)
                  hard == enforce_evidence_references(p.data, extraction_packet, TRUE)
              IN  /\ lax.res = NoExc
                  /\ lax.issues = hard.issues
                  /\ Len(lax.issues) = Cardinality(Offending(lax.data, extraction_packet))
                  /\ hard.res.exc = "ValidationError" <=> lax.issues # <<>>
                  /\ hard.res.exc = "ValidationError" => hard.res.msg = lax.issues
                  /\ pc' = "persist"
                  /\ parsed' = lax.data
                  /\ Last(verdicts').res = NoExc
                  /\ validation_errors' = validation_errors

\* C23: with strict false enforce_evidence_references never raises for
\* unknown EIDs: it returns the issues, one for every unknown citation and
\* the same list strict mode reports, and the generation loop takes the
\* response as validated.
C23_NonStrictReturnsIssues == [][NonStrictRound]_vars

\* without strict mode a response that cites an EID the packet does not hold
\* has been validated in the first round and is about to be persisted
C23_Witness ==
    /\ pc = "persist"
    /\ ~strict_validation
    /\ Len(verdicts) = 1 /\ verdicts[1].res = NoExc
    /\ validation_errors = <<>>
    /\ Offending(parsed, extraction_packet) # {}

\* the statuses of the model calls of round r, in the order of the calls
RoundStatuses(r) ==
    LET own == SelectSeq(calls, LAMBDA c : c.round = r)
    IN  [i \in 1..Len(own) |-> own[i].status]

\* generate_with_retries has raised in the current admission and nothing has
\* replaced its error
TransportRaised == pc \in {"handler", "raised"} /\ exc.exc = "RuntimeError"

\* C24: generate_with_retries ends a round with its first successful attempt,
\* and when all max(1, retry_limit) attempts of a round fail it raises one
\* transport error; after that error the admission gets no repair prompt and
\* no further model call, and it ends with status 'error'.
C24_TransportFailureIsSingle ==
    /\ \A r \in {calls[i].round : i \in 1..Len(calls)} :
          LET st == RoundStatuses(r)
          IN  /\ Len(st) <= Max1(retry_limit)
              /\ \A i \in 1..Len(st) : st[i] = "ok" => i = Len(st)
              /\ r < Last(calls).round => Last(st) = "ok"
    /\ TransportRaised =>
          LET st == RoundStatuses(schema_attempt)
          IN  /\ st = [i \in 1..Max1(retry_limit) |-> "error"]
              /\ Len(exc.msg) = 1
              /\ exc.msg[1].what = "Model call failed after attempts"
              /\ exc.msg[1].idx = Max1(retry_limit)
              /\ Len(verdicts) = schema_attempt - 1
              /\ Len(validation_errors) = schema_attempt - 1
              /\ calls # <<>> /\ Last(calls).round = schema_attempt
              /\ pc = "raised" =>
                    /\ Last(patient_manifest).status = "error"
                    /\ Last(patient_manifest).error = exc.msg

\* two failed attempts in the first round, with a retry limit of two, have
\* ended the admission with status 'error' after two model calls
C24_Witness ==
    /\ pc = "raised"
    /\ exc.exc = "RuntimeError"
    /\ retry_limit = 2
    /\ schema_attempt = 1
    /\ Len(calls) = 2
    /\ Last(patient_manifest).status = "error"

\* the transport error of a second round, after a repair prompt
C24_WitnessSecondRound ==
    /\ pc = "raised"
    /\ exc.exc = "RuntimeError"
    /\ schema_attempt = 2
    /\ Len(calls) = 3

\* admission a comes before admission b: by admittime, an admission without
\* admittime after every admission with one, and by hadm_id within a tie
AdmittedBefore(a, b) ==
    \/ a.admittime # NULL /\ b.admittime = NULL
    \/ a.admittime # NULL /\ b.admittime # NULL /\ a.admittime < b.admittime
    \/ a.admittime = b.admittime /\ a.hadm_id < b.hadm_id

\* the admissions of a subject in the source, all of them or those with a
\* discharge note
EligibleAdmissions(subject_id, with_note) ==
    {a \in hosp_admissions :
        /\ a.subject_id = subject_id
        /\ with_note => \E n \in note_discharge :
                            n.subject_id = subject_id /\ n.hadm_id = a.hadm_id}

\* the place of admission a among the admissions S
RankIn(a, S) == 1 + Cardinality({b \in S : AdmittedBefore(b, a)})

SourceRow(adm) ==
    [subject_id |-> adm.subject_id, hadm_id |-> adm.hadm_id,
     admittime |-> adm.admittime, dischtime |-> adm.dischtime]

\* the arguments of the call as the code reads them: the discharge-note
\* filter is on unless it is switched off, and no cap keeps every admission
WithNoteOf(args) == args.only_with_discharge # 0

EligibleOf(args) == EligibleAdmissions(args.subject_id, WithNoteOf(args))

CapOf(args) ==
    IF args.max_admissions = NULL THEN Cardinality(EligibleOf(args)) ELSE args.max_admissions

\* the admissions the call has to process: the first CapOf of the eligible
\* ones in order, and of these the requested one when one is requested
ToProcess(args) ==
    {a \in EligibleOf(args) :
        /\ RankIn(a, EligibleOf(args)) <= CapOf(args)
        /\ args.hadm_id # NULL => a.hadm_id = args.hadm_id}

\* C25: the admissions of a call are the subject's admissions in ascending
\* admittime order, ties broken by ascending hadm_id and admissions without
\* admittime last, cut to the first max_admissions when a cap is given; the
\* admissions are processed in that order, one manifest entry after another.
C25_ProcessedInAdmissionOrder ==
    pc # "idle" =>
        /\ {SourceRow(admissions[i]) : i \in 1..Len(admissions)} = ToProcess(entry_in)
        /\ \A i, j \in 1..Len(admissions) :
              i < j => AdmittedBefore(admissions[i], admissions[j])
        /\ entry_in.hadm_id = NULL =>
              \A i \in 1..Len(admissions) :
                  RankIn(SourceRow(admissions[i]), EligibleOf(entry_in)) = i
        /\ admissions # <<>> =>
              Len(patient_manifest) = (IF pc \in {"loop", "returned"} THEN adm_i - 1 ELSE adm_i)
        /\ \A i \in 1..Len(patient_manifest) :
              patient_manifest[i].hadm_id = admissions[i].hadm_id

\* all four admissions of subject 1 are listed, 40 after 10 by the tie on
\* admittime and 30 last for its missing admittime, and the second is being
\* processed after the first has completed
C25_Witness ==
    /\ pc = "extract"
    /\ entry_in.only_with_discharge = 0 /\ entry_in.max_admissions = NULL
    /\ [i \in 1..Len(admissions) |-> admissions[i].hadm_id] = <<10, 40, 20, 30>>
    /\ [i \in 1..Len(patient_manifest) |-> patient_manifest[i].status] = <<"completed", "pending">>
    /\ patient_manifest[2].hadm_id = 40

\* a cap of two keeps the first two admissions of the order
C25_WitnessCap ==
    /\ pc = "loop"
    /\ entry_in.max_admissions = 2 /\ entry_in.hadm_id = NULL
    /\ [i \in 1..Len(admissions) |-> admissions[i].hadm_id] = <<10, 40>>

\* the requested admission is one of the subject's that the discharge-note
\* filter keeps, and it lies beyond the first max_admissions admissions
RequestedBeyondCap(args) ==
    /\ args.hadm_id # NULL
    /\ args.max_admissions # NULL
    /\ \E a \in EligibleOf(args) :
          /\ a.hadm_id = args.hadm_id
          /\ RankIn(a, EligibleOf(args)) > args.max_admissions

\* the call has raised 'No admissions found' and has touched nothing
RaisedUntouched ==
    /\ pc = "raised"
    /\ exc = ValueError(0, "No admissions found")
    /\ _cached_subject_id = NULL
    /\ cache_builds = 0
    /\ prepare_calls = 0
    /\ patient_manifest = <<>>
    /\ disk_manifest = <<>>
    /\ disk_files = {}
    /\ disk_details = <<>> /\ disk_only = <<>>

\* C30: the single-admission filter is applied after the max_admissions cap:
\* a call that requests an admission of the subject beyond the first
\* max_admissions admissions raises 'No admissions found', before the subject
\* cache is prepared, the output directory is reset or a manifest is written.
C30_FilterAfterCap ==
    pc # "idle" /\ RequestedBeyondCap(entry_in) => RaisedUntouched

\* admission 20 of subject 1, the third of its four admissions, requested
\* with a cap of two: the call has raised
C30_Witness ==
    /\ pc = "raised"
    /\ entry_in = [subject_id |-> 1, hadm_id |-> 20, max_admissions |-> 2,
                   only_with_discharge |-> 0]
    /\ RaisedUntouched

\* the admissions of a patient are being processed
Processing == pc \notin {"idle", "returned", "raised"}

\* a call of generate_patient_sample that gets to prepare_subject_cache
CallPrepares == pc \in {"idle", "returned", "raised"} /\ prepare_calls' = prepare_calls + 1

\* prepare_subject_cache applied twice with one id gives what one call gives
PrepareTwiceIsOnce ==
    \A cached \in {NULL} \cup SUBJECTS, subject_id \in SUBJECTS, builds \in 0..MaxRuns :
        LET once == prepare_subject_cache(cached, builds, subject_id)
        IN  /\ once.cached = subject_id
            /\ prepare_subject_cache(once.cached, once.builds, subject_id) = once

\* what a step does to the store
CacheStep ==
    /\ CallPrepares =>
          /\ _cached_subject_id' = subject'
          /\ _cached_subject_id = subject' =>
                /\ cache_builds' = cache_builds
                /\ \A rows \in {hosp_admissions, hosp_patients, hosp_labevents, note_discharge} :
                      scoped(rows, _cached_subject_id') = scoped(rows, _cached_subject_id)
    /\ Processing => UNCHANGED store_vars

\* C26: prepare_subject_cache is idempotent for a repeated subject id: a call
\* with the id that is cached rebuilds nothing and leaves the scoped tables
\* and the cached id as they are; once the cache holds a patient's rows it
\* is not modified while that patient's admissions are processed.
C26_CacheIdempotent ==
    /\ [](PrepareTwiceIsOnce /\ (Processing => _cached_subject_id = subject))
    /\ [][CacheStep]_vars

\* a second call for the cached subject has got to the admission loop: the
\* store was prepared twice and built once
C26_Witness ==
    /\ pc = "loop"
    /\ prepare_calls = 2
    /\ cache_builds = 1
    /\ _cached_subject_id = subject

\* C28: on one pipeline, after a call has populated the cache for subject A,
\* a following call for a different subject B that has admissions with
\* discharge notes lists and processes B's admissions, none of them lost to
\* the rows the cache holds for A.
C28_NextSubjectListed ==
    [][ ( /\ pc \in {"returned", "raised"}
          /\ _cached_subject_id # NULL
          /\ subject' # _cached_subject_id
          /\ EligibleAdmissions(subject', TRUE) # {} )
        => ( /\ pc' = "loop"
             /\ admissions' # <<>>
             /\ \A i \in 1..Len(admissions') :
                   SourceRow(admissions'[i]) \in EligibleAdmissions(subject', FALSE) )
      ]_vars

\* what the code does instead: the call for B finds no admission, raises and
\* leaves the store with the rows of A
C28_NextSubjectRefused ==
    [][ ( /\ pc \in {"returned", "raised"}
          /\ _cached_subject_id # NULL
          /\ subject' # _cached_subject_id )
        => ( /\ pc' = "raised"
             /\ exc' = ValueError(0, "No admissions found")
             /\ UNCHANGED store_vars )
      ]_vars

\* a call for subject 2 has raised on a pipeline whose cache holds subject 1
C28_RefusedReached ==
    /\ pc = "raised"
    /\ subject = 2
    /\ _cached_subject_id = 1
    /\ exc = ValueError(0, "No admissions found")

====
